---- MODULE Spec2Model ----
(***************************************************************************)
(* Model of the Yosys netlist reconstruction of OpenNetlistView            *)
(* (src/src/yosys): Parser::parse and the pipeline it drives per module:   *)
(* constant materialisation, split/join resolution, node synthesis,        *)
(* stitching of paths, pruning and validation.                             *)
(*                                                                         *)
(* A bit identifier is a QString in the code.  It is modelled by the       *)
(* integer it spells: the constants "0" and "1" are 0 and 1, a net token   *)
(* "n" is n (Yosys numbers nets from 2), and the no-connect marker "x" is  *)
(* X.  QString::number and QString::toULong are then the identity on       *)
(* tokens, and a generated token "1" is the same bit as the constant "1",  *)
(* exactly as in the code.                                                 *)
(***************************************************************************)
EXTENDS Integers, Sequences, FiniteSets, TLC

\* ------------------------------------------------------------------ bits
\* The no-connect marker "x".
X == -1

\* bit == "0" || bit == "1"
IsConstBit(b) == b = 0 \/ b = 1

hasConstantBits(bits) == \E i \in DOMAIN bits : IsConstBit(bits[i])

hasNoConnectBits(bits) == \E i \in DOMAIN bits : bits[i] = X

\* QString::toULong of a bit: 0 for a string that is no number.
toULong(b) == IF b = X THEN 0 ELSE b

RECURSIVE SeqMax(_, _)
SeqMax(bits, i) ==
    IF i > Len(bits) THEN 0
    ELSE LET rest == SeqMax(bits, i + 1)
             v == IF bits[i] # X /\ bits[i] # 0 /\ bits[i] # 1 THEN toULong(bits[i]) ELSE 0
         IN IF v > rest THEN v ELSE rest

\* Port::getMaxBitNumber
PortMaxBitNumber(bits) == SeqMax(bits, 1)

\* QList::mid(pos, length) for 0 <= pos, 0 <= length
mid(s, pos, length) ==
    IF pos >= Len(s) \/ length <= 0 THEN <<>>
    ELSE SubSeq(s, pos + 1, IF pos + length > Len(s) THEN Len(s) ELSE pos + length)

\* contains finding nothing
contains_never(list, e) == FALSE

\* QList::contains
contains(list, e) == \E i \in DOMAIN list : list[i] = e

\* QList::indexOf, 1-based; 0 stands for -1
indexOf(list, e) ==
    IF contains(list, e) THEN CHOOSE i \in DOMAIN list : list[i] = e /\ \A j \in 1..(i - 1) : list[j] # e
    ELSE 0

\* QList::remove(i, 1), i 1-based
removeAt(list, i) == SubSeq(list, 1, i - 1) \o SubSeq(list, i + 1, Len(list))

\* std::search(haystack, needle) != haystack.end()
search(haystack, needle) ==
    IF Len(needle) = 0 THEN Len(haystack) > 0
    ELSE \E i \in 1..(Len(haystack) - Len(needle) + 1) :
            \A k \in 1..Len(needle) : haystack[i + k - 1] = needle[k]

\* Parser::indexOfContains, 1-based; 0 stands for -1
indexOfContains(list, element) ==
    IF \E i \in DOMAIN list : search(list[i], element)
    THEN CHOOSE i \in DOMAIN list : search(list[i], element) /\ \A j \in 1..(i - 1) : ~search(list[j], element)
    ELSE 0

\* ---------------------------------------------- order of QStringList keys
RECURSIVE Digits(_)
Digits(n) == IF n < 10 THEN <<n>> ELSE Digits(n \div 10) \o <<n % 10>>

\* The characters of a bit, as numbers ordered like their code units: 'x'
\* sorts after every digit.
QStr(b) == IF b = X THEN <<10>> ELSE Digits(b)

RECURSIVE LexLess(_, _, _)
LexLess(s, t, i) ==
    IF i > Len(t) THEN FALSE
    ELSE IF i > Len(s) THEN TRUE
    ELSE IF s[i] < t[i] THEN TRUE
    ELSE IF t[i] < s[i] THEN FALSE
    ELSE LexLess(s, t, i + 1)

\* QString operator<
StrLess(a, b) == LexLess(QStr(a), QStr(b), 1)

RECURSIVE ListLessFrom(_, _, _)
ListLessFrom(s, t, i) ==
    IF i > Len(t) THEN FALSE
    ELSE IF i > Len(s) THEN TRUE
    ELSE IF StrLess(s[i], t[i]) THEN TRUE
    ELSE IF StrLess(t[i], s[i]) THEN FALSE
    ELSE ListLessFrom(s, t, i + 1)

\* QList<QString> operator< : the key order of the std::map of bit lists
ListLess(s, t) == ListLessFrom(s, t, 1)

\* std::map<QStringList, QList<QStringList>>: the entries in key order
mapFind(map, key) ==
    IF \E i \in DOMAIN map : map[i].key = key
    THEN CHOOSE i \in DOMAIN map : map[i].key = key
    ELSE 0

\* addToMap on a map that keeps its entries in the order of insertion
addToMap_insertionOrder(map, key, value) ==
    LET at == mapFind(map, key)
    IN IF at = 0
       THEN Append(map, [key |-> key, vals |-> <<value>>])
       ELSE [map EXCEPT ![at].vals = Append(@, value)]

\* Parser::addToMap
addToMap(map, key, value) ==
    LET at == mapFind(map, key)
    IN IF at = 0
       THEN LET before == Cardinality({i \in DOMAIN map : ListLess(map[i].key, key)})
            IN SubSeq(map, 1, before) \o <<[key |-> key, vals |-> <<value>>]>>
               \o SubSeq(map, before + 1, Len(map))
       ELSE [map EXCEPT ![at].vals = Append(@, value)]

\* ------------------------------------------------------- bit segmentation
RECURSIVE splitScan(_, _, _, _, _, _)
splitScan(bits, i, currentBits, startIdx, lastWasConst, acc) ==
    IF i > Len(bits)
    THEN IF currentBits # <<>>
         THEN Append(acc, [start |-> startIdx, end |-> startIdx + Len(currentBits) - 1, bits |-> currentBits])
         ELSE acc
    ELSE LET isConst == IsConstBit(bits[i])
         IN IF currentBits = <<>> \/ isConst = lastWasConst
            THEN splitScan(bits, i + 1, Append(currentBits, bits[i]), startIdx, isConst, acc)
            ELSE splitScan(bits, i + 1, <<bits[i]>>, startIdx + Len(currentBits), isConst,
                     Append(acc, [start |-> startIdx, end |-> startIdx + Len(currentBits) - 1, bits |-> currentBits]))

\* splitBits without the run emitted after the loop
splitBits_noFinalRun(bits) ==
    IF bits = <<>> THEN <<>>
    ELSE LET runs == splitScan(bits, 1, <<>>, 0, IsConstBit(bits[1]), <<>>)
         IN SubSeq(runs, 1, Len(runs) - 1)

\* splitBits starting a new run at every bit
splitBits_perBit(bits) == [i \in DOMAIN bits |-> [start |-> i - 1, end |-> i - 1, bits |-> <<bits[i]>>]]

\* Parser::splitBits: the runs in key order of the map, i.e. by (start, end)
splitBits(bits) ==
    IF bits = <<>> THEN <<>> ELSE splitScan(bits, 1, <<>>, 0, IsConstBit(bits[1]), <<>>)

\* ------------------------------------------------------ the object graph
\* A Port.  path is the id of the attached Path, 0 for nullptr; parentNode is
\* the name of the owning Node, "" for nullptr.
Port(name, direction, bits) ==
    [name |-> name, direction |-> direction, bits |-> bits, path |-> 0, parentNode |-> "", constValue |-> 0]

Node(name, type, ports) ==
    [name |-> name, type |-> type, ports |-> [i \in DOMAIN ports |-> [ports[i] EXCEPT !.parentNode = name]]]

\* A Path.  sigSource is a port reference or NoPort; id stands for the
\* identity of the shared pointer.
NoPort == <<0, 0>>

Path(id, name, bits, hiddenName) ==
    [id |-> id, name |-> name, bits |-> bits, hiddenName |-> hiddenName,
     sigSource |-> NoPort, sigDestinations |-> <<>>, alternativeNames |-> <<>>]

Netname(name, bits, isHidden) ==
    [name |-> name, bits |-> bits, isHidden |-> isHidden, alternativeNetnames |-> <<>>]

Module(type) == [type |-> type, ports |-> <<>>, nodes |-> <<>>, paths |-> <<>>, netnames |-> <<>>]

NoModule == Module("")

\* A port reference <<n, i>>: port i of node n, or boundary port i for n = 0.
PortAt(m, ref) == IF ref[1] = 0 THEN m.ports[ref[2]] ELSE m.nodes[ref[1]].ports[ref[2]]

BoundaryRefs(m) == [i \in 1..Len(m.ports) |-> <<0, i>>]

RECURSIVE NodeRefsFrom(_, _)
NodeRefsFrom(m, n) ==
    IF n > Len(m.nodes) THEN <<>>
    ELSE [i \in 1..Len(m.nodes[n].ports) |-> <<n, i>>] \o NodeRefsFrom(m, n + 1)

\* the ports of all nodes, in the order of the nested loops over nodes and ports
NodeRefs(m) == NodeRefsFrom(m, 1)

AllRefs(m) == BoundaryRefs(m) \o NodeRefs(m)

SelectRefs(m, refs, Test(_)) == SelectSeq(refs, LAMBDA r : Test(PortAt(m, r)))

SetPort(m, ref, port) ==
    IF ref[1] = 0 THEN [m EXCEPT !.ports[ref[2]] = port]
    ELSE [m EXCEPT !.nodes[ref[1]].ports[ref[2]] = port]

\* Module::addPort / addNode / addPath / addNetname
addPort(m, port) == [m EXCEPT !.ports = Append(@, port)]
addNode(m, node) == [m EXCEPT !.nodes = Append(@, node)]
addPath(m, path) == [m EXCEPT !.paths = Append(@, path)]
addNetname(m, netname) == [m EXCEPT !.netnames = Append(@, netname)]

\* Module::removePath: erase the path with this identity
removePath(m, id) == [m EXCEPT !.paths = SelectSeq(@, LAMBDA p : p.id # id)]

\* Port::hasConnection
PortHasConnection(port) == port.path # 0 \/ hasNoConnectBits(port.bits)

\* hasConnection asking for a driver only
PathHasConnection_driverOnly(path) == path.sigSource # NoPort \/ hasNoConnectBits(path.bits)

\* Path::hasConnection
PathHasConnection(path) ==
    (path.sigSource # NoPort /\ path.sigDestinations # <<>>) \/ hasNoConnectBits(path.bits)

\* Node::hasConnection
NodeHasConnection(node) == \A i \in DOMAIN node.ports : PortHasConnection(node.ports[i])

\* Module::hasConnection
ModuleHasConnection(m) ==
    /\ \A i \in DOMAIN m.ports : PortHasConnection(m.ports[i])
    /\ \A i \in DOMAIN m.nodes : NodeHasConnection(m.nodes[i])
    /\ \A i \in DOMAIN m.paths : PathHasConnection(m.paths[i])

\* Module::isEmpty
isEmpty(m) == m.paths = <<>> /\ m.nodes = <<>> /\ m.ports = <<>>

\* hasModuleInvalidPaths finding every module valid
hasModuleInvalidPaths_never(m) == FALSE

\* hasModuleInvalidPaths without its test for an empty path list
hasModuleInvalidPaths_noEmptyTest(m) ==
    ~(\A i \in DOMAIN m.paths : PathHasConnection(m.paths[i]))

\* Module::hasModuleInvalidPaths
hasModuleInvalidPaths(m) ==
    ~(\A i \in DOMAIN m.paths : PathHasConnection(m.paths[i])) \/ m.paths = <<>>

\* Module::getMaxBitNumber
getMaxBitNumber(m) ==
    LET refs == AllRefs(m)
        RECURSIVE maxOver(_)
        maxOver(i) ==
            IF i > Len(refs) THEN 0
            ELSE LET a == PortMaxBitNumber(PortAt(m, refs[i]).bits)
                     b == maxOver(i + 1)
                 IN IF a > b THEN a ELSE b
    IN maxOver(1)

\* Module::getNetnameByBits: the index of the first netname with these bits, 0 for nullptr
getNetnameByBits(m, bits) ==
    IF \E i \in DOMAIN m.netnames : m.netnames[i].bits = bits
    THEN CHOOSE i \in DOMAIN m.netnames :
            m.netnames[i].bits = bits /\ \A j \in 1..(i - 1) : m.netnames[j].bits # bits
    ELSE 0

\* getPathByBits taking the last path with these bits
getPathByBits_last(m, bits) ==
    IF \E i \in DOMAIN m.paths : m.paths[i].bits = bits
    THEN CHOOSE i \in DOMAIN m.paths :
            m.paths[i].bits = bits /\ \A j \in (i + 1)..Len(m.paths) : m.paths[j].bits # bits
    ELSE 0

\* getPathByBits taking the first path that contains the bits (Path::partialBitsMatch)
getPathByBits_partial(m, bits) ==
    IF \E i \in DOMAIN m.paths : search(m.paths[i].bits, bits)
    THEN CHOOSE i \in DOMAIN m.paths :
            search(m.paths[i].bits, bits) /\ \A j \in 1..(i - 1) : ~search(m.paths[j].bits, bits)
    ELSE 0

\* Module::getPathByBits: the index in the path list of the first path with these bits, 0 for nullptr
getPathByBits(m, bits) ==
    IF \E i \in DOMAIN m.paths : m.paths[i].bits = bits
    THEN CHOOSE i \in DOMAIN m.paths :
            m.paths[i].bits = bits /\ \A j \in 1..(i - 1) : m.paths[j].bits # bits
    ELSE 0

\* ------------------------------------------- reading one module's JSON
\* A module of the JSON document is a record
\*   [name, blackbox, top, netnames, ports, cells]
\* whose collections are in key order, as QVariantMap iterates them.

\* Parser::createPort: throws for a direction other than input/output and
\* for an empty bit array.
createPortThrows(p) == (p.direction # "input" /\ p.direction # "output") \/ p.bits = <<>>

createPort(p) == Port(p.name, IF p.direction = "input" THEN "INPUT" ELSE "OUTPUT", p.bits)

\* QJsonArray::removeAt for each index of unused_bits, last index first
RECURSIVE removeUnused(_, _, _)
removeUnused(bits, unused, k) ==
    IF k < 1 THEN bits
    ELSE removeUnused(IF unused[k] >= 0 /\ unused[k] < Len(bits) THEN removeAt(bits, unused[k] + 1) ELSE bits,
                      unused, k - 1)

\* Parser::parseNetnames; a JSON bit is a string exactly when it is "0", "1" or "x"
RECURSIVE parseNetnames(_, _, _)
parseNetnames(m, netnames, k) ==
    IF k > Len(netnames) THEN [ok |-> TRUE, m |-> m]
    ELSE LET n == netnames[k]
             bitStrings == removeUnused(n.bits, n.unused_bits, Len(n.unused_bits))
             same == {i \in DOMAIN m.netnames : m.netnames[i].bits = bitStrings}
         IN IF n.bits = <<>> THEN [ok |-> FALSE, m |-> m]
            ELSE IF \A i \in DOMAIN n.bits : n.bits[i] \in {0, 1, X}
            THEN parseNetnames(m, netnames, k + 1)
            ELSE IF same # {}
            THEN parseNetnames(
                    [m EXCEPT !.netnames = [i \in DOMAIN @ |->
                        IF i \in same THEN [@[i] EXCEPT !.alternativeNetnames = Append(@, n.name)] ELSE @[i]]],
                    netnames, k + 1)
            ELSE parseNetnames(addNetname(m, Netname(n.name, bitStrings, n.hide_name = 1)), netnames, k + 1)

\* Parser::parsePorts
RECURSIVE parsePorts(_, _, _)
parsePorts(m, ports, k) ==
    IF k > Len(ports) THEN [ok |-> TRUE, m |-> m]
    ELSE IF createPortThrows(ports[k]) THEN [ok |-> FALSE, m |-> m]
    ELSE parsePorts(addPort(m, createPort(ports[k])), ports, k + 1)

\* Parser::parseCells; a cell without port directions or connections throws
RECURSIVE parseCells(_, _, _)
parseCells(m, cells, k) ==
    IF k > Len(cells) THEN [ok |-> TRUE, m |-> m]
    ELSE LET c == cells[k]
         IN IF c.ports = <<>> \/ \E i \in DOMAIN c.ports : createPortThrows(c.ports[i])
            THEN [ok |-> FALSE, m |-> m]
            ELSE parseCells(addNode(m, Node(c.name, c.type, [i \in DOMAIN c.ports |-> createPort(c.ports[i])])),
                            cells, k + 1)

\* Parser::parse, lines 84-96: the module as read from the JSON
readModule(json) ==
    LET a == parseNetnames(Module(json.name), json.netnames, 1)
        b == parsePorts(a.m, json.ports, 1)
        c == parseCells(b.m, json.cells, 1)
    IN IF ~a.ok THEN a ELSE IF ~b.ok THEN b ELSE c

\* ------------------------------------------------- constant materializer
\* Port::setConstPortValue(QStringList): the first bit is the least significant
RECURSIVE constValueOf(_, _)
constValueOf(bits, i) == IF i > Len(bits) THEN 0 ELSE toULong(bits[i]) + 2 * constValueOf(bits, i + 1)

\* createConstantPort giving the port the constant bits it stands for
createConstantPort_constBits(name, bits, constValue) ==
    [Port(name, "CONST", constValue) EXCEPT !.constValue = constValueOf(constValue, 1)]

\* Parser::createConstantPort
createConstantPort(name, bits, constValue) ==
    [Port(name, "CONST", bits) EXCEPT !.constValue = constValueOf(constValue, 1)]

\* Port::replaceBits for the inclusive 0-based range of a run
replaceBits(old, run, bits) ==
    [i \in DOMAIN old |-> IF i - 1 >= run.start /\ i - 1 <= run.end THEN bits[i - run.start] ELSE old[i]]

\* the ports replaceConstBits works on, in its order
constHosts(m) ==
    SelectRefs(m, BoundaryRefs(m), LAMBDA p : p.direction = "OUTPUT" /\ hasConstantBits(p.bits))
    \o SelectRefs(m, NodeRefs(m), LAMBDA p : p.direction = "INPUT" /\ hasConstantBits(p.bits))

\* the loop over the runs of one port (parser.cpp 606-627); st = [m, max, map]
RECURSIVE replaceRuns(_, _, _, _)
replaceRuns(st, ref, runs, k) ==
    IF k > Len(runs) THEN st
    ELSE IF ~IsConstBit(runs[k].bits[1]) THEN replaceRuns(st, ref, runs, k + 1)
    ELSE LET bits == [i \in 1..Len(runs[k].bits) |-> st.max + i]
             host == PortAt(st.m, ref)
             m1 == addPort(st.m, createConstantPort(host.name \o "_const", bits, runs[k].bits))
             m2 == SetPort(m1, ref, [host EXCEPT !.bits = replaceBits(@, runs[k], bits)])
         IN replaceRuns([st EXCEPT !.m = m2, !.max = st.max + Len(runs[k].bits)], ref, runs, k + 1)

\* std::map<QStringList, QStringList>::operator[] assignment
mapPut(map, key, val) == [k \in DOMAIN map \cup {key} |-> IF k = key THEN val ELSE map[k]]

\* the loop over the ports (parser.cpp 600-631)
RECURSIVE replaceHosts(_, _, _)
replaceHosts(st, hosts, k) ==
    IF k > Len(hosts) THEN st
    ELSE LET originalBits == PortAt(st.m, hosts[k]).bits
             st1 == replaceRuns(st, hosts[k], splitBits(originalBits), 1)
         IN replaceHosts([st1 EXCEPT !.map = mapPut(@, originalBits, PortAt(st1.m, hosts[k]).bits)],
                         hosts, k + 1)

\* Parser::replaceConstBits: the module and the translation map afterwards
replaceConstBits(m, map) ==
    replaceHosts([m |-> m, max |-> getMaxBitNumber(m), map |-> map], constHosts(m), 1)

\* ------------------------------------------------------ signal resolver
\* A Task of createSplitJoin; indices are 0-based as in the code.
Task(startIdx, endIdx, querryBits) == [startIdx |-> startIdx, endIdx |-> endIdx, querryBits |-> querryBits]

\* the task pushed after a segment was matched: what follows it in toSolve
remainderTask(toSolve, current) ==
    Task(current.endIdx, Len(toSolve), mid(toSolve, current.endIdx, Len(toSolve) - current.endIdx))

\* shrinkTask going on behind a query of one bit that matched nothing
shrinkTask_pastUnmatched(toSolve, current) ==
    IF Len(current.querryBits) = 1
    THEN Task(current.endIdx, Len(toSolve), mid(toSolve, current.endIdx, Len(toSolve) - current.endIdx))
    ELSE Task(current.startIdx, current.startIdx + Len(current.querryBits) - 1,
              mid(toSolve, current.startIdx, Len(current.querryBits) - 1))

\* shrinkTask pushing the task it was given
shrinkTask_sameQuery(toSolve, current) == current

\* the task pushed when nothing matched: the query without its last bit
shrinkTask(toSolve, current) ==
    Task(current.startIdx, current.startIdx + Len(current.querryBits) - 1,
         mid(toSolve, current.startIdx, Len(current.querryBits) - 1))

\* Parser::createSplitJoin.  st = [src, dst, split, join] are the four
\* containers passed by reference; solveTasks is the while loop over the stack.
RECURSIVE solveTasks(_, _, _)
RECURSIVE createSplitJoin(_, _, _, _)

solveTasks(st, toSolve, tasks) ==
    IF tasks = <<>> THEN st
    ELSE LET current == tasks[Len(tasks)]
             popped == SubSeq(tasks, 1, Len(tasks) - 1)
             destIdx == indexOf(st.dst, toSolve)
             st1 == IF destIdx # 0 THEN [st EXCEPT !.dst = removeAt(@, destIdx)] ELSE st
             querryBits == current.querryBits
             join1 == IF querryBits # toSolve THEN addToMap(st1.join, toSolve, querryBits) ELSE st1.join
             indexOfSubPath == indexOfContains(st1.src, querryBits)
         IN IF current.startIdx >= Len(toSolve) \/ current.endIdx - current.startIdx < 1
            THEN solveTasks(st1, toSolve, popped)
            ELSE IF contains(st1.src, querryBits)
            THEN solveTasks([st1 EXCEPT !.join = join1], toSolve,
                            Append(popped, remainderTask(toSolve, current)))
            ELSE IF indexOfSubPath # 0
            THEN solveTasks([st1 EXCEPT !.join = join1,
                                        !.split = addToMap(@, st1.src[indexOfSubPath], querryBits),
                                        !.src = Append(@, querryBits)],
                            toSolve, Append(popped, remainderTask(toSolve, current)))
            ELSE IF indexOfContains(st1.dst, querryBits) # 0
            THEN LET inner == createSplitJoin([st1 EXCEPT !.join = join1, !.dst = <<>>],
                                              querryBits, 0, Len(querryBits))
                     st2 == [inner EXCEPT !.dst = st1.dst, !.src = Append(@, querryBits)]
                 IN solveTasks(st2, toSolve,
                               IF search(toSolve, querryBits)
                               THEN Append(popped, remainderTask(toSolve, current))
                               ELSE popped)
            ELSE solveTasks(st1, toSolve, Append(popped, shrinkTask(toSolve, current)))

createSplitJoin(st, toSolve, startIdx, endIdx) ==
    solveTasks(st, toSolve, <<Task(startIdx, endIdx, mid(toSolve, startIdx, endIdx - startIdx))>>)

\* the bit lists collected by connectDiagramConnections (parser.cpp 145-189)
collectSrcPorts(m) ==
    LET bref == SelectRefs(m, BoundaryRefs(m),
                    LAMBDA p : ~hasNoConnectBits(p.bits) /\ p.direction \in {"INPUT", "CONST"})
        nref == SelectRefs(m, NodeRefs(m),
                    LAMBDA p : ~hasNoConnectBits(p.bits) /\ p.direction = "OUTPUT")
    IN [i \in DOMAIN bref |-> PortAt(m, bref[i]).bits] \o [i \in DOMAIN nref |-> PortAt(m, nref[i]).bits]

collectDestPorts(m) ==
    LET bref == SelectRefs(m, BoundaryRefs(m),
                    LAMBDA p : ~hasNoConnectBits(p.bits) /\ p.direction = "OUTPUT")
        nref == SelectRefs(m, NodeRefs(m),
                    LAMBDA p : ~hasNoConnectBits(p.bits) /\ p.direction = "INPUT")
    IN [i \in DOMAIN bref |-> PortAt(m, bref[i]).bits] \o [i \in DOMAIN nref |-> PortAt(m, nref[i]).bits]

\* the loop over destPorts (parser.cpp 191-204)
RECURSIVE resolveFrom(_, _, _)
resolveFrom(st, destPorts, k) ==
    IF k > Len(destPorts) THEN st
    ELSE resolveFrom(createSplitJoin(st, destPorts[k], 0, Len(destPorts[k])), destPorts, k + 1)

resolve(m) ==
    resolveFrom([src |-> collectSrcPorts(m), dst |-> collectDestPorts(m), split |-> <<>>, join |-> <<>>],
                collectDestPorts(m), 1)

\* ------------------------------------------------------ node synthesizer
\* createSplitNodes giving the 'in' port the bits of the first part
RECURSIVE createSplitNodes_inFirstPart(_, _, _)
createSplitNodes_inFirstPart(m, splitInfo, k) ==
    IF k > Len(splitInfo) THEN m
    ELSE LET destBits == splitInfo[k].vals
             spliterPorts == <<Port("in", "INPUT", destBits[1])>>
                 \o [i \in DOMAIN destBits |-> Port("out" \o ToString(i - 1), "OUTPUT", destBits[i])]
         IN createSplitNodes_inFirstPart(addNode(m, Node("split" \o ToString(k - 1), "split", spliterPorts)),
                                         splitInfo, k + 1)

\* Parser::createSplitNodes
RECURSIVE createSplitNodes(_, _, _)
createSplitNodes(m, splitInfo, k) ==
    IF k > Len(splitInfo) THEN m
    ELSE LET destBits == splitInfo[k].vals
             spliterPorts == <<Port("in", "INPUT", splitInfo[k].key)>>
                 \o [i \in DOMAIN destBits |-> Port("out" \o ToString(i - 1), "OUTPUT", destBits[i])]
         IN createSplitNodes(addNode(m, Node("split" \o ToString(k - 1), "split", spliterPorts)),
                             splitInfo, k + 1)

\* createJoinNodes numbering the inputs from 1
RECURSIVE createJoinNodes_fromOne(_, _, _)
createJoinNodes_fromOne(m, joinInfo, k) ==
    IF k > Len(joinInfo) THEN m
    ELSE LET destBits == joinInfo[k].vals
             joinerPorts == [i \in DOMAIN destBits |-> Port("in" \o ToString(i), "INPUT", destBits[i])]
                 \o <<Port("out", "OUTPUT", joinInfo[k].key)>>
         IN createJoinNodes_fromOne(addNode(m, Node("join" \o ToString(k - 1), "join", joinerPorts)),
                                    joinInfo, k + 1)

\* Parser::createJoinNodes
RECURSIVE createJoinNodes(_, _, _)
createJoinNodes(m, joinInfo, k) ==
    IF k > Len(joinInfo) THEN m
    ELSE LET destBits == joinInfo[k].vals
             joinerPorts == [i \in DOMAIN destBits |-> Port("in" \o ToString(i - 1), "INPUT", destBits[i])]
                 \o <<Port("out", "OUTPUT", joinInfo[k].key)>>
         IN createJoinNodes(addNode(m, Node("join" \o ToString(k - 1), "join", joinerPorts)),
                            joinInfo, k + 1)

\* ------------------------------------------------------- signal stitcher
\* the pools of createSignalConnections (parser.cpp 702-732), as references
stitchSrcPorts(m) ==
    SelectRefs(m, BoundaryRefs(m), LAMBDA p : p.direction \in {"INPUT", "CONST"})
    \o SelectRefs(m, NodeRefs(m), LAMBDA p : p.direction = "OUTPUT")

stitchDestPorts(m) ==
    SelectRefs(m, BoundaryRefs(m), LAMBDA p : p.direction \notin {"INPUT", "CONST"})
    \o SelectRefs(m, NodeRefs(m), LAMBDA p : p.direction # "OUTPUT")

\* srcPathName never looking at the declared net names
srcPathName_neverNetname(m, map, srcPort) == [name |-> srcPort.name \o "_sig", isHidden |-> TRUE]

\* name and hidden flag of the path of one source port (parser.cpp 747-776)
srcPathName(m, map, srcPort) ==
    LET fallback == [name |-> srcPort.name \o "_sig", isHidden |-> TRUE]
        byBits(bits) == LET n == getNetnameByBits(m, bits)
                        IN IF n # 0 THEN [name |-> m.netnames[n].name, isHidden |-> m.netnames[n].isHidden]
                           ELSE fallback
    IN IF srcPort.direction = "CONST"
       THEN IF srcPort.bits \in DOMAIN map THEN byBits(map[srcPort.bits]) ELSE fallback
       ELSE byBits(srcPort.bits)

\* Parser::connectSignalSrcConnections
RECURSIVE connectSignalSrcConnections(_, _, _, _)
connectSignalSrcConnections(m, map, srcPorts, k) ==
    IF k > Len(srcPorts) THEN m
    ELSE LET srcPort == PortAt(m, srcPorts[k])
             named == srcPathName(m, map, srcPort)
             id == Len(m.paths) + 1
             path == [Path(id, named.name, srcPort.bits, named.isHidden) EXCEPT !.sigSource = srcPorts[k]]
         IN connectSignalSrcConnections(addPath(SetPort(m, srcPorts[k], [srcPort EXCEPT !.path = id]), path),
                                        map, srcPorts, k + 1)

\* connectSignalDestConnections attaching a port to every path with its bits
RECURSIVE connectSignalDestConnections_everyPath(_, _, _)
connectSignalDestConnections_everyPath(m, destPorts, k) ==
    IF k > Len(destPorts) THEN m
    ELSE LET destPort == PortAt(m, destPorts[k])
             at == getPathByBits(m, destPort.bits)
             m1 == [m EXCEPT !.paths = [i \in DOMAIN @ |->
                        IF @[i].bits = destPort.bits
                        THEN [@[i] EXCEPT !.sigDestinations = Append(@, destPorts[k])] ELSE @[i]]]
         IN IF at = 0 THEN connectSignalDestConnections_everyPath(m, destPorts, k + 1)
            ELSE connectSignalDestConnections_everyPath(
                    SetPort(m1, destPorts[k], [destPort EXCEPT !.path = m.paths[at].id]),
                    destPorts, k + 1)

\* Parser::connectSignalDestConnections
RECURSIVE connectSignalDestConnections(_, _, _)
connectSignalDestConnections(m, destPorts, k) ==
    IF k > Len(destPorts) THEN m
    ELSE LET destPort == PortAt(m, destPorts[k])
             at == getPathByBits(m, destPort.bits)
         IN IF at = 0 THEN connectSignalDestConnections(m, destPorts, k + 1)
            ELSE connectSignalDestConnections(
                    SetPort([m EXCEPT !.paths[at].sigDestinations = Append(@, destPorts[k])],
                            destPorts[k], [destPort EXCEPT !.path = m.paths[at].id]),
                    destPorts, k + 1)

\* Parser::createSignalConnections
createSignalConnections(m, map) ==
    connectSignalDestConnections(connectSignalSrcConnections(m, map, stitchSrcPorts(m), 1),
                                 stitchDestPorts(m), 1)

\* ------------------------------------------------- dangling path pruner
\* removeUnconnectedPaths removing the first path without connection only
removeUnconnectedPaths_firstOnly(m) ==
    LET pathsToRemove == SelectSeq(m.paths, LAMBDA p : ~PathHasConnection(p))
    IN IF pathsToRemove = <<>> THEN m ELSE removePath(m, pathsToRemove[1].id)

\* Parser::removeUnconnectedPaths
removeUnconnectedPaths(m) ==
    LET pathsToRemove == SelectSeq(m.paths, LAMBDA p : ~PathHasConnection(p))
        RECURSIVE removeFrom(_, _)
        removeFrom(mm, k) == IF k > Len(pathsToRemove) THEN mm
                             ELSE removeFrom(removePath(mm, pathsToRemove[k].id), k + 1)
    IN removeFrom(m, 1)

\* ----------------------------------------------------------- the parser
VARIABLES
    yosysJsonObject,          \* the modules of the JSON document, in key order
    pc,                       \* where Parser::parse stands
    idx,                      \* the module the loop of parse is at
    currentModule,            \* Parser::currentModule
    diagram,                  \* Parser::diagram: the modules added so far
    topModule,                \* Diagram::topModule as an index into diagram, 0 for nullptr
    constToNonConstPortBits,  \* Parser::constToNonConstPortBits
    splitInfo,                \* the maps of connectDiagramConnections
    joinInfo,
    error,                    \* what() of the exception parse ended with, "" for none
    input,                    \* the argument of a function called on its own
    output,                   \* what the calls of this function returned, one after the other
    exec                      \* where a call of createSplitJoin stands, while it runs on its own

\* the members of the parser
parser == <<yosysJsonObject, pc, idx, currentModule, diagram, topModule,
            constToNonConstPortBits, splitInfo, joinInfo, error>>

\* the argument and the results of a function called outside of parse
call == <<input, output, exec>>

vars == <<parser, call>>

json == yosysJsonObject[idx]

\* the loop of parse moves on to the next module, or ends
nextModule == IF idx + 1 > Len(yosysJsonObject) THEN "done" ELSE "module"

throw(what) == pc' = "failed" /\ error' = what

\* addModule keeping only the module added last
addModule_onlyLast(modules, module) == <<module>>

\* Diagram::addModule; the module is never nullptr here
addModule(modules, module) == Append(modules, module)

\* ParseStart going on without modules
ParseStart_noThrow ==
    /\ pc = "parse"
    /\ IF yosysJsonObject = <<>>
       THEN pc' = "done" /\ idx' = 1 /\ error' = error
       ELSE pc' = "module" /\ idx' = 1 /\ error' = error
    /\ UNCHANGED <<yosysJsonObject, currentModule, diagram, topModule,
                   constToNonConstPortBits, splitInfo, joinInfo>>
    /\ UNCHANGED call

\* parser.cpp 64-70
ParseStart ==
    /\ pc = "parse"
    /\ IF yosysJsonObject = <<>>
       THEN throw("No modules found in Yosys JSON object") /\ idx' = idx
       ELSE pc' = "module" /\ idx' = 1 /\ error' = error
    /\ UNCHANGED <<yosysJsonObject, currentModule, diagram, topModule,
                   constToNonConstPortBits, splitInfo, joinInfo>>
    /\ UNCHANGED call

\* SkipBlackbox leaving the loop over the modules
SkipBlackbox_endsLoop ==
    /\ pc = "module"
    /\ json.blackbox
    /\ pc' = "done"
    /\ idx' = idx + 1
    /\ UNCHANGED <<yosysJsonObject, currentModule, diagram, topModule,
                   constToNonConstPortBits, splitInfo, joinInfo, error>>
    /\ UNCHANGED call

\* parser.cpp 79-82
SkipBlackbox ==
    /\ pc = "module"
    /\ json.blackbox
    /\ pc' = nextModule
    /\ idx' = idx + 1
    /\ UNCHANGED <<yosysJsonObject, currentModule, diagram, topModule,
                   constToNonConstPortBits, splitInfo, joinInfo, error>>
    /\ UNCHANGED call

\* ReadModule without the test for a module with no ports and no nodes
ReadModule_acceptsEmpty ==
    /\ pc = "module"
    /\ ~json.blackbox
    /\ LET r == readModule(json)
       IN /\ currentModule' = r.m
          /\ IF ~r.ok THEN throw("Error while parsing")
             ELSE pc' = "replace" /\ error' = error
    /\ UNCHANGED <<yosysJsonObject, idx, diagram, topModule,
                   constToNonConstPortBits, splitInfo, joinInfo>>
    /\ UNCHANGED call

\* parser.cpp 84-105
ReadModule ==
    /\ pc = "module"
    /\ ~json.blackbox
    /\ LET r == readModule(json)
       IN /\ currentModule' = r.m
          /\ IF ~r.ok THEN throw("Error while parsing")
             ELSE IF r.m.ports = <<>> /\ r.m.nodes = <<>> THEN throw("Module has no Ports or Nodes")
             ELSE pc' = "replace" /\ error' = error
    /\ UNCHANGED <<yosysJsonObject, idx, diagram, topModule,
                   constToNonConstPortBits, splitInfo, joinInfo>>
    /\ UNCHANGED call

\* parser.cpp 108
ReplaceConstBits ==
    /\ pc = "replace"
    /\ LET r == replaceConstBits(currentModule, constToNonConstPortBits)
       IN currentModule' = r.m /\ constToNonConstPortBits' = r.map
    /\ pc' = "resolve"
    /\ UNCHANGED <<yosysJsonObject, idx, diagram, topModule, splitInfo, joinInfo, error>>
    /\ UNCHANGED call

\* parser.cpp 111, connectDiagramConnections up to the loop over destPorts
Resolve ==
    /\ pc = "resolve"
    /\ LET r == resolve(currentModule)
       IN splitInfo' = r.split /\ joinInfo' = r.join
    /\ pc' = "synth"
    /\ UNCHANGED <<yosysJsonObject, idx, currentModule, diagram, topModule,
                   constToNonConstPortBits, error>>
    /\ UNCHANGED call

\* parser.cpp 207-208
Synthesize ==
    /\ pc = "synth"
    /\ currentModule' = createSplitNodes(createJoinNodes(currentModule, joinInfo, 1), splitInfo, 1)
    /\ pc' = "stitch"
    /\ UNCHANGED <<yosysJsonObject, idx, diagram, topModule,
                   constToNonConstPortBits, splitInfo, joinInfo, error>>
    /\ UNCHANGED call

\* parser.cpp 211
Stitch ==
    /\ pc = "stitch"
    /\ currentModule' = createSignalConnections(currentModule, constToNonConstPortBits)
    /\ pc' = "prune"
    /\ UNCHANGED <<yosysJsonObject, idx, diagram, topModule,
                   constToNonConstPortBits, splitInfo, joinInfo, error>>
    /\ UNCHANGED call

\* parser.cpp 114
Prune ==
    /\ pc = "prune"
    /\ currentModule' = removeUnconnectedPaths(currentModule)
    /\ pc' = "validate"
    /\ UNCHANGED <<yosysJsonObject, idx, diagram, topModule,
                   constToNonConstPortBits, splitInfo, joinInfo, error>>
    /\ UNCHANGED call

\* parser.cpp 117-136
Validate ==
    /\ pc = "validate"
    /\ IF hasModuleInvalidPaths(currentModule)
       THEN throw("Module has no Paths or Nodes") /\ UNCHANGED <<idx, diagram, topModule>>
       ELSE IF isEmpty(currentModule)
       THEN throw("Module has no components") /\ UNCHANGED <<idx, diagram, topModule>>
       ELSE /\ diagram' = addModule(diagram, currentModule)
            /\ topModule' = IF json.top THEN Len(diagram') ELSE topModule
            /\ idx' = idx + 1
            /\ pc' = nextModule
            /\ error' = error
    /\ UNCHANGED <<yosysJsonObject, currentModule, constToNonConstPortBits, splitInfo, joinInfo>>
    /\ UNCHANGED call

Next ==
    \/ ParseStart
    \/ SkipBlackbox
    \/ ReadModule
    \/ ReplaceConstBits
    \/ Resolve
    \/ Synthesize
    \/ Stitch
    \/ Prune
    \/ Validate

\* ------------------------------------------------------ the JSON inputs
JPort(name, direction, bits) == [name |-> name, direction |-> direction, bits |-> bits]

JCell(name, type, ports) == [name |-> name, type |-> type, ports |-> ports]

JNet(name, bits, hide_name, unused_bits) ==
    [name |-> name, bits |-> bits, hide_name |-> hide_name, unused_bits |-> unused_bits]

JModule(name, blackbox, top, netnames, ports, cells) ==
    [name |-> name, blackbox |-> blackbox, top |-> top, netnames |-> netnames, ports |-> ports, cells |-> cells]

\* The bounds of the inputs.
\*   MaxTok      the largest net token of the modules drawn without a pattern
\*   MaxBits     the number of bits of all ports of such a module together
\*   BusWidth    the width of the bus whose slices the ports of a bus module carry
\*   ScenTok     the largest net token of the split and join scenarios
\*   MaxModules  the number of modules of a design with several modules
MaxTok == 3
MaxBits == 3
BusWidth == 3
ScenTok == 6
MaxModules == 3

NetTokens == 2..MaxTok

SeqsUpTo(S, n) == UNION {[1..k -> S] : k \in 1..n}

ListsUpTo(S, n) == UNION {[1..k -> S] : k \in 0..n}

\* the bit sequence w cut into ports: a port ends after position i when c[i]
RECURSIVE CutFrom(_, _, _, _)
CutFrom(w, c, i, piece) ==
    IF i > Len(w) THEN IF piece = <<>> THEN <<>> ELSE <<piece>>
    ELSE IF i < Len(w) /\ c[i] THEN <<Append(piece, w[i])>> \o CutFrom(w, c, i + 1, <<>>)
    ELSE CutFrom(w, c, i + 1, Append(piece, w[i]))

Cut(w, c) == CutFrom(w, c, 1, <<>>)

\* A module with the given driver and consumer bit lists.  The placement says
\* which of them are boundary ports ("b") and which are ports of the cell c1
\* ("c"): drivers first, consumers second.  Names are in key order.
buildModule(name, placement, srcs, sinks, netnames) ==
    LET ins == [i \in DOMAIN srcs |-> JPort("a" \o ToString(i), "input", srcs[i])]
        outs == [i \in DOMAIN sinks |-> JPort("y" \o ToString(i), "output", sinks[i])]
        cins == [i \in DOMAIN sinks |-> JPort("A" \o ToString(i), "input", sinks[i])]
        couts == [i \in DOMAIN srcs |-> JPort("Y" \o ToString(i), "output", srcs[i])]
        bports == (IF placement[1] = "b" THEN ins ELSE <<>>) \o (IF placement[2] = "b" THEN outs ELSE <<>>)
        cports == (IF placement[2] = "c" THEN cins ELSE <<>>) \o (IF placement[1] = "c" THEN couts ELSE <<>>)
    IN JModule(name, FALSE, TRUE, netnames, bports,
               IF cports = <<>> THEN <<>> ELSE <<JCell("c1", "$cell", cports)>>)

Placements == {<<"b", "b">>, <<"b", "c">>, <<"c", "b">>, <<"c", "c">>}

\* the state parse() is called in, for a JSON document with these modules
Start(design) ==
    /\ yosysJsonObject = design
    /\ pc = "parse"
    /\ idx = 0
    /\ currentModule = NoModule
    /\ diagram = <<>>
    /\ topModule = 0
    /\ constToNonConstPortBits = <<>>
    /\ splitInfo = <<>>
    /\ joinInfo = <<>>
    /\ error = ""
    /\ input = <<>>
    /\ output = <<>>
    /\ exec = <<>>

\* modules drawn without a pattern: drivers over the net tokens and "x",
\* consumers over the net tokens, "x" and the constant "0", MaxBits bits at most
InitGeneric ==
    \E pl \in Placements, n \in {k \in (0..MaxBits) \X (0..MaxBits) : k[1] + k[2] <= MaxBits} :
        \E ws \in [1..n[1] -> NetTokens \cup {X}], cs \in [1..(n[1] - 1) -> BOOLEAN],
           wt \in [1..n[2] -> NetTokens \cup {X, 0}], ct \in [1..(n[2] - 1) -> BOOLEAN] :
            Start(<<buildModule("m", pl, Cut(ws, cs), Cut(wt, ct), <<>>)>>)

\* bus modules: every port carries a slice of the bus <<2, 3, ...>>
Bus == [i \in 1..BusWidth |-> i + 1]

Slices == {SubSeq(Bus, i, j) : i \in 1..BusWidth, j \in 1..BusWidth} \ {<<>>}

InitBus ==
    \E srcs \in ListsUpTo(Slices, 2), sinks \in ListsUpTo(Slices, 2) :
        Start(<<buildModule("m", <<"b", "b">>, srcs, sinks, <<>>)>>)

\* the split scenario: one driver of four distinct net tokens and two
\* consumers with its two halves, in either order
InitSplit ==
    \E pl \in Placements, swap \in BOOLEAN,
       s \in {t \in [1..4 -> 2..ScenTok] : \A i, j \in 1..4 : i # j => t[i] # t[j]} :
        Start(<<buildModule("m", pl, <<s>>,
                            IF swap THEN <<SubSeq(s, 3, 4), SubSeq(s, 1, 2)>>
                                    ELSE <<SubSeq(s, 1, 2), SubSeq(s, 3, 4)>>, <<>>)>>)

\* the join scenario: two drivers of one net token each and one consumer
\* with the two tokens
InitJoin ==
    \E pl \in Placements, a \in 2..ScenTok, b \in 2..ScenTok :
        Start(<<buildModule("m", pl, <<<<a>>, <<b>>>>, <<<<a, b>>>>, <<>>)>>)

\* modules with declared net names
InitNetname ==
    \E pl \in {<<"b", "b">>, <<"b", "c">>},
       srcs \in {<<>>, <<<<2>>>>, <<<<2, 3>>>>},
       sink \in {<<2, 0>>, <<0, 2>>, <<2>>, <<2, 3>>, <<0, 1>>},
       bits \in {<<2, 0>>, <<0, 2>>, <<2>>, <<2, 3>>, <<0, 1>>, <<2, 4>>},
       hide \in {0, 1},
       extra \in {<<>>, <<JNet("n2", <<2, 0>>, 0, <<>>)>>, <<JNet("n2", <<2, 3, 4>>, 1, <<2>>)>>} :
        Start(<<buildModule("m", pl, srcs, <<sink>>, <<JNet("n1", bits, hide, <<>>)>> \o extra)>>)

\* designs with several modules, drawn from a pool of modules that are
\* accepted, rejected, malformed or black boxes
PoolModules ==
    {buildModule("m", <<"b", "b">>, <<<<2>>>>, <<<<2>>>>, <<>>),
     buildModule("m", <<"b", "c">>, <<<<2, 3>>>>, <<<<2, 0>>>>, <<JNet("n1", <<2, 0>>, 0, <<>>)>>),
     buildModule("m", <<"b", "b">>, <<>>, <<<<2>>>>, <<>>),
     buildModule("m", <<"b", "b">>, <<>>, <<>>, <<>>),
     JModule("m", FALSE, FALSE, <<>>, <<JPort("a1", "input", <<>>)>>, <<>>),
     JModule("m", FALSE, FALSE, <<JNet("n1", <<>>, 0, <<>>)>>, <<>>, <<>>),
     buildModule("m", <<"b", "b">>, <<<<2>>>>, <<<<1>>>>, <<>>),
     buildModule("m", <<"b", "b">>, <<>>, <<<<0>>>>, <<JNet("n1", <<3>>, 0, <<>>)>>),
     JModule("m", TRUE, FALSE, <<>>, <<JPort("a1", "inout", <<>>)>>, <<>>),
     JModule("m", TRUE, TRUE, <<>>, <<>>, <<>>)}

\* the modules of a JSON object have distinct names, in key order
named(ms) == [i \in DOMAIN ms |-> [ms[i] EXCEPT !.name = "m" \o ToString(i)]]

InitPool == \E k \in 0..MaxModules : \E ms \in [1..k -> PoolModules] : Start(named(ms))

Init == InitGeneric \/ InitBus \/ InitSplit \/ InitJoin \/ InitNetname \/ InitPool

Spec == Init /\ [][Next]_vars

\* ------------------------------------------------------------ the claims
\* the modules that have been through the stitcher: the one parse is working
\* on after createSignalConnections, and those added to the diagram
StitchedModules ==
    (IF pc \in {"prune", "validate"} THEN {currentModule} ELSE {})
    \cup {diagram[i] : i \in DOMAIN diagram}

AcceptedModules == {diagram[i] : i \in DOMAIN diagram}

\* a path with a no-connect bit, or with a driver and at least one consumer
PathIsConnected(p) ==
    hasNoConnectBits(p.bits) \/ (p.sigSource # NoPort /\ Len(p.sigDestinations) >= 1)

\* C1: every module added to the diagram has at least one Path and each of
\* its Paths contains a no-connect bit or has a driver and a consumer; a module
\* with no Path after pruning is rejected with an error and not added.
C1_AcceptedHasConnectedPaths ==
    /\ [](\A m \in AcceptedModules :
            m.paths # <<>> /\ \A i \in DOMAIN m.paths : PathIsConnected(m.paths[i]))
    /\ [][pc = "validate" /\ currentModule.paths = <<>>
            => pc' = "failed" /\ error' # "" /\ diagram' = diagram]_vars

\* C1 witness: a module was added after the pruner removed one of its paths
C1_Witness ==
    /\ pc = "done" /\ Len(diagram) = 1
    /\ Len(diagram[1].paths) >= 1
    /\ Len(diagram[1].paths) < Len(stitchSrcPorts(diagram[1]))

\* C2: a module is accepted only if every port, boundary or node owned, is
\* attached to a Path or contains a no-connect bit.
C2_AcceptedFullyConnected ==
    \A m \in AcceptedModules :
        \A i \in DOMAIN AllRefs(m) :
            LET port == PortAt(m, AllRefs(m)[i])
            IN port.path # 0 \/ hasNoConnectBits(port.bits)

\* the names of the modules of the JSON object at the places js, in order
NamesAt(js) == [i \in DOMAIN js |-> yosysJsonObject[js[i]].name]

RECURSIVE Upto(_)
Upto(n) == IF n < 1 THEN <<>> ELSE Append(Upto(n - 1), n)

\* the pipeline of parse for one module, run by a parser of its own
acceptedAlone(jm) ==
    LET r == readModule(jm)
        c == replaceConstBits(r.m, <<>>).m
        i == resolve(c)
        n == createSplitNodes(createJoinNodes(c, i.join, 1), i.split, 1)
        p == removeUnconnectedPaths(createSignalConnections(n, <<>>))
    IN /\ r.ok
       /\ ~(r.m.ports = <<>> /\ r.m.nodes = <<>>)
       /\ ~hasModuleInvalidPaths(p)
       /\ ~isEmpty(p)

\* C3 as claimed: when a module is rejected, every other module that is no
\* black box and would be accepted on its own is in the diagram, whether it
\* comes before or after the rejected one.
C3_SiblingsUnaffected ==
    pc = "failed" /\ idx >= 1 =>
        \A j \in DOMAIN yosysJsonObject :
            j # idx /\ ~yosysJsonObject[j].blackbox /\ acceptedAlone(yosysJsonObject[j])
                => \E k \in DOMAIN diagram : diagram[k].type = yosysJsonObject[j].name

\* C3 as amended: rejecting a module ends parse with the error; the diagram
\* then holds exactly the modules before the rejected one that are no black
\* box, in processing order, and no module after it.
C3_RejectionEndsParse ==
    pc = "failed" /\ idx >= 1 =>
        [k \in DOMAIN diagram |-> diagram[k].type]
            = NamesAt(SelectSeq(Upto(idx - 1), LAMBDA j : ~yosysJsonObject[j].blackbox))

\* C3 witness: a module is rejected after a module was added and before
\* a module that would be accepted on its own
C3_Witness ==
    /\ pc = "failed" /\ Len(diagram) = 1 /\ idx = 2 /\ idx < Len(yosysJsonObject)
    /\ ~yosysJsonObject[idx + 1].blackbox /\ acceptedAlone(yosysJsonObject[idx + 1])

\* C4: in every module that has been through the stitcher, the driver of a
\* Path, if present, and every port of its destination list carry exactly
\* the bit sequence of the Path.
C4_PathPortsShareBits ==
    \A m \in StitchedModules :
        \A i \in DOMAIN m.paths :
            LET p == m.paths[i]
            IN /\ p.sigSource # NoPort => PortAt(m, p.sigSource).bits = p.bits
               /\ \A d \in DOMAIN p.sigDestinations : PortAt(m, p.sigDestinations[d]).bits = p.bits

\* C4 witness: right after stitching a path of two bits has a driver and a consumer
C4_Witness ==
    /\ pc = "prune"
    /\ \E i \in DOMAIN currentModule.paths :
          /\ Len(currentModule.paths[i].bits) = 2
          /\ currentModule.paths[i].sigSource # NoPort
          /\ currentModule.paths[i].sigDestinations # <<>>

\* the places <<path, position>> where a port is in a destination list
DestPlaces(m, ref) ==
    {pl \in {<<i, d>> : i \in DOMAIN m.paths, d \in 1..Len(stitchDestPorts(m))} :
        pl[2] \in DOMAIN m.paths[pl[1]].sigDestinations
            /\ m.paths[pl[1]].sigDestinations[pl[2]] = ref}

\* C5: after stitching every consumer port is in the destination list of at
\* most one Path, at most once, and its path reference is that Path.
C5_SingleClaim ==
    \A m \in StitchedModules :
        \A k \in DOMAIN stitchDestPorts(m) :
            LET ref == stitchDestPorts(m)[k]
                places == DestPlaces(m, ref)
            IN /\ Cardinality(places) <= 1
               /\ \A pl \in places : PortAt(m, ref).path = m.paths[pl[1]].id

\* C5 witness: after stitching two paths carry the bits of an attached consumer
C5_Witness ==
    /\ pc = "prune"
    /\ \E k \in DOMAIN stitchDestPorts(currentModule) :
          LET port == PortAt(currentModule, stitchDestPorts(currentModule)[k])
          IN /\ port.path # 0
             /\ Cardinality({i \in DOMAIN currentModule.paths :
                                currentModule.paths[i].bits = port.bits}) >= 2

Range(f) == {f[i] : i \in DOMAIN f}

\* every bit of the ports and the net names of a module
ModuleBits(m) ==
    UNION {Range(PortAt(m, AllRefs(m)[i]).bits) : i \in DOMAIN AllRefs(m)}
    \cup UNION {Range(m.netnames[i].bits) : i \in DOMAIN m.netnames}

\* C6: replaceConstBits keeps the length of every port it works on, leaves
\* the positions without a constant unchanged and puts at every position of a
\* constant a net token that is no constant literal and no no-connect marker,
\* was nowhere in the module before, and is allocated nowhere else.
C6_ConstantRoundTrip ==
    [][pc = "replace" =>
        LET hosts == constHosts(currentModule)
            old(k) == PortAt(currentModule, hosts[k]).bits
            new(k) == PortAt(currentModule', hosts[k]).bits
            places == {pl \in {<<k, i>> : k \in DOMAIN hosts, i \in 1..(MaxBits + 4)} :
                          pl[2] \in DOMAIN old(pl[1]) /\ IsConstBit(old(pl[1])[pl[2]])}
        IN \A k \in DOMAIN hosts :
              /\ Len(new(k)) = Len(old(k))
              /\ \A i \in DOMAIN old(k) :
                    IF IsConstBit(old(k)[i])
                    THEN /\ new(k)[i] \notin {0, 1, X}
                         /\ new(k)[i] \notin ModuleBits(currentModule)
                         /\ \A pl \in places : pl # <<k, i>> => new(pl[1])[pl[2]] # new(k)[i]
                    ELSE new(k)[i] = old(k)[i]
    ]_vars

IsNetToken(b) == b >= 2

\* the module of a design with one module, as read from the JSON
OnlyModule == readModule(yosysJsonObject[1]).m

OneModuleDesign ==
    Len(yosysJsonObject) = 1 /\ ~yosysJsonObject[1].blackbox /\ readModule(yosysJsonObject[1]).ok

\* C7: for a consumer with bits P ++ U, where P is the bits of a driver or a
\* part of them and no bit of U is in any driver or other consumer, the
\* module is accepted and no Path carries a bit of U.
C7_UnresolvedTail ==
    pc \in {"done", "failed"} /\ OneModuleDesign =>
        LET srcs == collectSrcPorts(OnlyModule)
            sinks == collectDestPorts(OnlyModule)
        IN \A k \in DOMAIN sinks : \A n \in 1..(Len(sinks[k]) - 1) :
              LET P == SubSeq(sinks[k], 1, n)
                  U == SubSeq(sinks[k], n + 1, Len(sinks[k]))
              IN (/\ \A i \in DOMAIN sinks[k] : IsNetToken(sinks[k][i])
                  /\ \E i \in DOMAIN srcs : search(srcs[i], P)
                  /\ \A u \in Range(U) :
                        /\ \A i \in DOMAIN srcs : u \notin Range(srcs[i])
                        /\ \A i \in DOMAIN sinks : i # k => u \notin Range(sinks[i]))
                 => /\ pc = "done" /\ Len(diagram) = 1
                    /\ \A i \in DOMAIN diagram[1].paths :
                          Range(diagram[1].paths[i].bits) \cap Range(U) = {}

\* the split scenario: one driver with four distinct net tokens, two
\* consumers with its first and its second half, no other port
SplitScenario ==
    /\ OneModuleDesign
    /\ Len(AllRefs(OnlyModule)) = 3
    /\ Len(stitchSrcPorts(OnlyModule)) = 1
    /\ LET S == PortAt(OnlyModule, stitchSrcPorts(OnlyModule)[1]).bits
           sinks == stitchDestPorts(OnlyModule)
       IN /\ Len(S) = 4
          /\ \A i, j \in 1..4 : IsNetToken(S[i]) /\ (i # j => S[i] # S[j])
          /\ <<PortAt(OnlyModule, sinks[1]).bits, PortAt(OnlyModule, sinks[2]).bits>>
                \in {<<SubSeq(S, 1, 2), SubSeq(S, 3, 4)>>, <<SubSeq(S, 3, 4), SubSeq(S, 1, 2)>>}

NodesOfType(m, type) == SelectSeq(m.nodes, LAMBDA n : n.type = type)

\* the port of a node with this name, direction and bits
HasPort(node, name, direction, bits) ==
    \E i \in DOMAIN node.ports :
        node.ports[i].name = name /\ node.ports[i].direction = direction /\ node.ports[i].bits = bits

\* what the split scenario yields but for the number of paths: one split node
\* with 'in' = S and 'out0', 'out1' = the two consumers, no join node
SplitScenarioNodes(m) ==
    LET S == PortAt(OnlyModule, stitchSrcPorts(OnlyModule)[1]).bits
        splits == NodesOfType(m, "split")
    IN /\ Len(splits) = 1
       /\ Len(splits[1].ports) = 3
       /\ HasPort(splits[1], "in", "INPUT", S)
       /\ \/ HasPort(splits[1], "out0", "OUTPUT", SubSeq(S, 1, 2))
                /\ HasPort(splits[1], "out1", "OUTPUT", SubSeq(S, 3, 4))
          \/ HasPort(splits[1], "out0", "OUTPUT", SubSeq(S, 3, 4))
                /\ HasPort(splits[1], "out1", "OUTPUT", SubSeq(S, 1, 2))
       /\ NodesOfType(m, "join") = <<>>

\* C8 as claimed: the split scenario yields one split node, no join node,
\* and an accepted module with exactly two Paths.
C8_SplitScenarioTwoPaths ==
    pc \in {"done", "failed"} /\ SplitScenario =>
        /\ pc = "done" /\ Len(diagram) = 1
        /\ SplitScenarioNodes(diagram[1])
        /\ Len(diagram[1].paths) = 2

\* C8 as amended: the split scenario yields one split node, no join node,
\* and an accepted module with exactly three Paths: one with the bits of S
\* from the driver to 'in', and one from each of 'out0', 'out1' to the
\* consumer with its bits.
C8_SplitScenarioThreePaths ==
    pc \in {"done", "failed"} /\ SplitScenario =>
        /\ pc = "done" /\ Len(diagram) = 1
        /\ SplitScenarioNodes(diagram[1])
        /\ Len(diagram[1].paths) = 3
        /\ LET m == diagram[1]
               S == PortAt(OnlyModule, stitchSrcPorts(OnlyModule)[1]).bits
               name(ref) == PortAt(m, ref).name
           IN /\ \E i \in DOMAIN m.paths :
                    /\ m.paths[i].bits = S
                    /\ m.paths[i].sigSource = stitchSrcPorts(OnlyModule)[1]
                    /\ Len(m.paths[i].sigDestinations) = 1
                    /\ name(m.paths[i].sigDestinations[1]) = "in"
              /\ \A half \in {SubSeq(S, 1, 2), SubSeq(S, 3, 4)} :
                    \E i \in DOMAIN m.paths :
                        /\ m.paths[i].bits = half
                        /\ name(m.paths[i].sigSource) \in {"out0", "out1"}
                        /\ Len(m.paths[i].sigDestinations) = 1
                        /\ m.paths[i].sigDestinations[1] \in Range(stitchDestPorts(OnlyModule))

\* C8 witness: the module of a split scenario was added to the diagram
C8_Witness == pc = "done" /\ SplitScenario /\ Len(diagram) = 1 /\ Len(diagram[1].nodes) >= 1

\* the join scenario: two drivers with one net token each, one consumer with
\* the two tokens in this order, no other port
JoinScenario ==
    /\ OneModuleDesign
    /\ Len(AllRefs(OnlyModule)) = 3
    /\ Len(stitchSrcPorts(OnlyModule)) = 2
    /\ LET a == PortAt(OnlyModule, stitchSrcPorts(OnlyModule)[1]).bits
           b == PortAt(OnlyModule, stitchSrcPorts(OnlyModule)[2]).bits
       IN /\ Len(a) = 1 /\ Len(b) = 1 /\ IsNetToken(a[1]) /\ IsNetToken(b[1])
          /\ PortAt(OnlyModule, stitchDestPorts(OnlyModule)[1]).bits = a \o b

\* C9: the join scenario yields one join node with 'in0' = [a], 'in1' = [b]
\* and 'out' = [a, b], no split node, and the Path driven by 'out' has the
\* consumer in its destination list.
C9_JoinScenario ==
    pc \in {"done", "failed"} /\ JoinScenario =>
        /\ pc = "done" /\ Len(diagram) = 1
        /\ LET m == diagram[1]
               a == PortAt(OnlyModule, stitchSrcPorts(OnlyModule)[1]).bits
               b == PortAt(OnlyModule, stitchSrcPorts(OnlyModule)[2]).bits
               joins == NodesOfType(m, "join")
           IN /\ Len(joins) = 1
              /\ Len(joins[1].ports) = 3
              /\ HasPort(joins[1], "in0", "INPUT", a)
              /\ HasPort(joins[1], "in1", "INPUT", b)
              /\ HasPort(joins[1], "out", "OUTPUT", a \o b)
              /\ NodesOfType(m, "split") = <<>>
              /\ \E i \in DOMAIN m.paths :
                    /\ m.paths[i].sigSource # NoPort
                    /\ PortAt(m, m.paths[i].sigSource).name = "out"
                    /\ PortAt(m, m.paths[i].sigSource).parentNode = joins[1].name
                    /\ stitchDestPorts(OnlyModule)[1] \in Range(m.paths[i].sigDestinations)

\* C9 witness: the module of a join scenario with two different tokens was added
C9_Witness ==
    /\ pc = "done" /\ JoinScenario /\ Len(diagram) = 1
    /\ PortAt(OnlyModule, stitchSrcPorts(OnlyModule)[1]).bits
          # PortAt(OnlyModule, stitchSrcPorts(OnlyModule)[2]).bits

\* the ports replaceConstBits may have taken the CONST port c from: the name
\* fits and the bits of c are part of the port's bits
ConstHostsOf(m, c) ==
    {r \in Range(constHosts(OnlyModule)) :
        PortAt(m, r).name \o "_const" = c.name /\ search(PortAt(m, r).bits, c.bits)}

\* C10: the Path of a CONST driver has the name and the hidden flag of the
\* Netname declared for the bits its port had before replaceConstBits, and
\* the name '<port>_sig' with hidden = true only when there is no such Netname.
C10_ConstPathNamedByOriginalBits ==
    pc = "prune" /\ OneModuleDesign =>
        \A i \in DOMAIN currentModule.paths :
            LET p == currentModule.paths[i]
                c == PortAt(currentModule, p.sigSource)
                hosts == ConstHostsOf(currentModule, c)
            IN c.direction = "CONST" /\ Cardinality(hosts) = 1 =>
                  \A r \in hosts :
                      LET n == getNetnameByBits(currentModule, PortAt(OnlyModule, r).bits)
                      IN IF n # 0
                         THEN /\ p.name = currentModule.netnames[n].name
                              /\ p.hiddenName = currentModule.netnames[n].isHidden
                         ELSE p.name = c.name \o "_sig" /\ p.hiddenName

\* the Netname the stitcher finds for a driver port: its index, 0 for none
\* (parser.cpp 751-775)
netnameOfDriver(m, map, srcPort) ==
    IF srcPort.direction = "CONST"
    THEN IF srcPort.bits \in DOMAIN map THEN getNetnameByBits(m, map[srcPort.bits]) ELSE 0
    ELSE getNetnameByBits(m, srcPort.bits)

\* C11: when the stitcher finds a Netname for a driver port, every
\* alternative name of this Netname is among the alternative names of the
\* Path created for the driver.
C11_AlternatesRecorded ==
    pc = "prune" =>
        \A i \in DOMAIN currentModule.paths :
            LET p == currentModule.paths[i]
                n == netnameOfDriver(currentModule, constToNonConstPortBits,
                                     PortAt(currentModule, p.sigSource))
            IN p.sigSource # NoPort /\ n # 0 =>
                  Range(currentModule.netnames[n].alternativeNetnames) \subseteq Range(p.alternativeNames)

\* the Paths of a module with this driver, as indices
PathsDrivenBy(m, ref) == {i \in DOMAIN m.paths : m.paths[i].sigSource = ref}

\* C12: right after stitching there is exactly one Path per driver port
\* (boundary INPUT, CONST, node OUTPUT), it has the port as driver and the
\* port's bits, and no other Path exists; for a driver that is not CONST the
\* Path has name and hidden flag of the first Netname with the port's bits,
\* and the name '<port>_sig' with hidden = true when there is none.
C12_OnePathPerDriver ==
    pc = "prune" =>
        LET m == currentModule
            drivers == stitchSrcPorts(m)
        IN /\ Len(m.paths) = Len(drivers)
           /\ \A k \in DOMAIN drivers :
                 LET P == PortAt(m, drivers[k])
                     mine == PathsDrivenBy(m, drivers[k])
                     cands == {i \in DOMAIN m.netnames : m.netnames[i].bits = P.bits}
                     first == CHOOSE i \in cands : \A j \in cands : i <= j
                 IN /\ P.direction \in {"INPUT", "CONST", "OUTPUT"}
                    /\ Cardinality(mine) = 1
                    /\ \A i \in mine :
                          /\ m.paths[i].bits = P.bits
                          /\ P.path = m.paths[i].id
                          /\ P.direction # "CONST" =>
                                IF cands # {}
                                THEN /\ m.paths[i].name = m.netnames[first].name
                                     /\ m.paths[i].hiddenName = m.netnames[first].isHidden
                                ELSE m.paths[i].name = P.name \o "_sig" /\ m.paths[i].hiddenName

\* C12 witness: after stitching one Path has the name of a Netname that is
\* not hidden, another one of a synthetic node has the name 'out0_sig'
C12_Witness ==
    /\ pc = "prune"
    /\ \E i, j \in DOMAIN currentModule.paths :
          /\ currentModule.paths[i].name = "n1" /\ ~currentModule.paths[i].hiddenName
          /\ currentModule.paths[j].name = "out0_sig" /\ currentModule.paths[j].hiddenName

\* --------------------------------------------- splitBits called on its own
\* the parser as constructed, while a function is called on its own
ParserIdle ==
    /\ yosysJsonObject = <<>>
    /\ pc = "parse"
    /\ idx = 0
    /\ currentModule = NoModule
    /\ diagram = <<>>
    /\ topModule = 0
    /\ constToNonConstPortBits = <<>>
    /\ splitInfo = <<>>
    /\ joinInfo = <<>>
    /\ error = ""

\* the longest bit sequence splitBits is called with
MaxSplitLen == 4

\* the bit sequences over "0", "1", "x" and two net tokens
SplitInputs == ListsUpTo({0, 1, X, 2, 3}, MaxSplitLen)

InitSplitBits == ParserIdle /\ input \in SplitInputs /\ output = <<>> /\ exec = <<>>

\* one call of Parser::splitBits
CallSplitBits ==
    /\ output = <<>>
    /\ output' = <<splitBits(input)>>
    /\ UNCHANGED <<parser, input, exec>>

NextSplitBits == CallSplitBits

SpecSplitBits == InitSplitBits /\ [][NextSplitBits]_vars

RECURSIVE ConcatRuns(_, _)
ConcatRuns(runs, k) == IF k > Len(runs) THEN <<>> ELSE runs[k].bits \o ConcatRuns(runs, k + 1)

\* C13: the ranges of splitBits(B) are inclusive, pairwise disjoint, start at
\* 0, follow each other without a gap in range order and end at |B| - 1;
\* the range (s, e) maps to B[s..e]; the mapped sequences concatenated in
\* range order are B; for the empty sequence the map is empty.
C13_SegmentationRoundTrip ==
    Len(output) = 1 =>
        LET B == input
            runs == output[1]
        IN /\ B = <<>> => runs = <<>>
           /\ B # <<>> => /\ runs # <<>>
                          /\ runs[1].start = 0
                          /\ runs[Len(runs)].end = Len(B) - 1
           /\ \A k \in DOMAIN runs :
                 /\ 0 <= runs[k].start /\ runs[k].start <= runs[k].end
                 /\ runs[k].bits = SubSeq(B, runs[k].start + 1, runs[k].end + 1)
                 /\ k < Len(runs) => runs[k + 1].start = runs[k].end + 1
                 /\ \A j \in DOMAIN runs :
                       j # k => runs[j].end < runs[k].start \/ runs[k].end < runs[j].start
           /\ ConcatRuns(runs, 1) = B

\* C13 witness: splitBits returned three ranges for a sequence of four bits
C13_Witness == Len(output) = 1 /\ Len(input) = 4 /\ Len(output[1]) = 3

\* C14: in each run of splitBits all bits have one classification, constant
\* ("0", "1") or not (net tokens and "x"), and two runs adjacent in range
\* order have different classifications.
C14_RunsMaximalAlternating ==
    Len(output) = 1 =>
        LET runs == output[1]
        IN \A k \in DOMAIN runs :
              /\ runs[k].bits # <<>>
              /\ \A i \in DOMAIN runs[k].bits : IsConstBit(runs[k].bits[i]) = IsConstBit(runs[k].bits[1])
              /\ k < Len(runs) => IsConstBit(runs[k + 1].bits[1]) # IsConstBit(runs[k].bits[1])

\* C14 witness: a run holds a net token and the no-connect marker, next to a
\* run of two different constants
C14_Witness ==
    /\ Len(output) = 1
    /\ \E k \in DOMAIN output[1] :
          /\ X \in Range(output[1][k].bits) /\ 2 \in Range(output[1][k].bits)
          /\ k < Len(output[1]) /\ output[1][k + 1].bits = <<0, 1>>

\* ------------------------------- removeUnconnectedPaths called on its own
\* the largest number of paths of a module the pruner is called with
MaxPrunePaths == 3

\* what a path of such a module may look like: with or without the
\* no-connect marker, with or without driver, with no, one or two consumers
PrunePathShapes ==
    [bits : {<<2>>, <<2, X>>},
     sigSource : {NoPort, <<0, 1>>},
     sigDestinations : {<<>>, <<<<0, 2>>>>, <<<<0, 2>>, <<1, 1>>>>}]

\* a module with the ports a1, y1, the node c1, the net name n1 and these paths
PruneModule(shapes) ==
    [Module("m") EXCEPT
        !.ports = <<Port("a1", "INPUT", <<2>>), Port("y1", "OUTPUT", <<2>>)>>,
        !.nodes = <<Node("c1", "$cell", <<Port("A1", "INPUT", <<2>>)>>)>>,
        !.netnames = <<Netname("n1", <<2>>, FALSE)>>,
        !.paths = [i \in DOMAIN shapes |->
                      [Path(i, "p" \o ToString(i), shapes[i].bits, TRUE) EXCEPT
                          !.sigSource = shapes[i].sigSource,
                          !.sigDestinations = shapes[i].sigDestinations]]]

InitPrune ==
    \E n \in 0..MaxPrunePaths : \E shapes \in [1..n -> PrunePathShapes] :
        ParserIdle /\ input = PruneModule(shapes) /\ output = <<>> /\ exec = <<>>

\* a call of Parser::removeUnconnectedPaths: the first one on the module
\* given, the second one on what the first one left
CallRemoveUnconnectedPaths ==
    /\ Len(output) < 2
    /\ output' = Append(output, removeUnconnectedPaths(IF output = <<>> THEN input ELSE output[Len(output)]))
    /\ UNCHANGED <<parser, input, exec>>

NextPrune == CallRemoveUnconnectedPaths

SpecPrune == InitPrune /\ [][NextPrune]_vars

\* a Path the claim has the pruner remove: it lacks a driver or lacks any
\* consumer, and it contains no no-connect marker
Dangling(p) == (p.sigSource = NoPort \/ p.sigDestinations = <<>>) /\ ~hasNoConnectBits(p.bits)

\* C15: the pruner removes exactly the Paths that lack a driver or lack any
\* consumer and contain no no-connect marker; the other Paths stay as they
\* are in their order, and the nodes, ports and net names stay as they are.
C15_PrunerRemovesExactlyDangling ==
    Len(output) >= 1 =>
        /\ output[1].paths = SelectSeq(input.paths, LAMBDA p : ~Dangling(p))
        /\ output[1].nodes = input.nodes
        /\ output[1].ports = input.ports
        /\ output[1].netnames = input.netnames

\* C15 witness: of three paths the pruner removed one that has a consumer
\* but no driver and kept one that has neither but a no-connect marker
C15_Witness ==
    /\ Len(output) = 1 /\ Len(input.paths) = 3 /\ Len(output[1].paths) = 2
    /\ \E i \in DOMAIN input.paths :
          /\ input.paths[i].sigSource = NoPort /\ input.paths[i].sigDestinations # <<>>
          /\ \A j \in DOMAIN output[1].paths : output[1].paths[j].id # input.paths[i].id
    /\ \E j \in DOMAIN output[1].paths :
          /\ output[1].paths[j].sigSource = NoPort /\ output[1].paths[j].sigDestinations = <<>>
          /\ hasNoConnectBits(output[1].paths[j].bits)

\* C16: a second run of removeUnconnectedPaths leaves the path list the
\* first run left, with the same elements in the same order.
C16_PruningIdempotent == Len(output) = 2 => output[2].paths = output[1].paths

\* C16 witness: the pruner ran twice on a module of which the first run
\* removed two paths and kept one
C16_Witness ==
    /\ Len(output) = 2
    /\ Len(input.paths) = 3
    /\ Len(output[1].paths) = 1

\* parse is about to read a module that is no black box and has no boundary
\* port and no cell
AtEmptyModule == pc = "module" /\ ~json.blackbox /\ json.ports = <<>> /\ json.cells = <<>>

\* the step of parse rejects the module before replaceConstBits,
\* connectDiagramConnections or removeUnconnectedPaths ran on it, and the
\* diagram stays as it is
RejectedUntouched ==
    /\ pc' = "failed"
    /\ diagram' = diagram /\ topModule' = topModule
    /\ constToNonConstPortBits' = constToNonConstPortBits
    /\ splitInfo' = splitInfo /\ joinInfo' = joinInfo
    /\ currentModule'.paths = <<>> /\ currentModule'.nodes = <<>> /\ currentModule'.ports = <<>>

\* C17 as claimed: a module that is no black box and has no boundary port
\* and no cell is rejected with the error 'no ports or nodes', before any
\* materialization, resolution or stitching, and is not added to the diagram.
C17_EmptyModuleNoPortsOrNodes ==
    [][AtEmptyModule => RejectedUntouched /\ error' = "Module has no Ports or Nodes"]_vars

\* C17 as amended: such a module is rejected before any materialization,
\* resolution or stitching and is not added to the diagram; the error is
\* 'no ports or nodes', unless one of its net names has no bits: then
\* reading the net names has raised its error before.
C17_EmptyModuleRejected ==
    [][AtEmptyModule =>
          /\ RejectedUntouched
          /\ error' = IF \E i \in DOMAIN json.netnames : json.netnames[i].bits = <<>>
                      THEN "Error while parsing"
                      ELSE "Module has no Ports or Nodes"]_vars

\* C17 witness: after a module was added, a module with no port and no cell
\* has been rejected with 'no ports or nodes'
C17_Witness ==
    /\ pc = "failed" /\ error = "Module has no Ports or Nodes"
    /\ idx = 2 /\ Len(diagram) = 1
    /\ json.ports = <<>> /\ json.cells = <<>> /\ ~json.blackbox

\* C18: for a document without modules, parse raises its error before it
\* works on any module, and leaves the diagram as it is: no module added,
\* the top module unchanged; nothing happens after the error.
C18_NoModulesIsAnError ==
    /\ [][pc = "parse" /\ yosysJsonObject = <<>> =>
            /\ pc' = "failed" /\ error' = "No modules found in Yosys JSON object"
            /\ idx' = 0 /\ currentModule' = currentModule
            /\ diagram' = diagram /\ topModule' = topModule]_vars
    /\ [][pc = "failed" => UNCHANGED vars]_vars

\* C18 witness: parse has failed for a document without modules
C18_Witness ==
    /\ yosysJsonObject = <<>> /\ pc = "failed" /\ error = "No modules found in Yosys JSON object"
    /\ diagram = <<>> /\ topModule = 0

\* C19: a module with the black-box attribute is skipped: parse does not
\* read it, raises no error for it whatever it holds, adds nothing to the
\* diagram, leaves the top module, and goes on with the next module; no
\* module of the diagram ever has the name of a black box.
C19_BlackboxSkipped ==
    /\ [][pc = "module" /\ json.blackbox =>
            /\ pc' = (IF idx < Len(yosysJsonObject) THEN "module" ELSE "done")
            /\ idx' = idx + 1
            /\ error' = error
            /\ currentModule' = currentModule
            /\ diagram' = diagram /\ topModule' = topModule
            /\ constToNonConstPortBits' = constToNonConstPortBits]_vars
    /\ [](\A k \in DOMAIN diagram : \A j \in DOMAIN yosysJsonObject :
            yosysJsonObject[j].blackbox => diagram[k].type # yosysJsonObject[j].name)

\* C19 witness: parse is done with a black box with the top attribute and a
\* black box with a port it could not read, and has then added a module
C19_Witness ==
    /\ pc = "done" /\ Len(yosysJsonObject) = 3 /\ Len(diagram) = 1
    /\ yosysJsonObject[1].blackbox /\ yosysJsonObject[1].top
    /\ yosysJsonObject[2].blackbox /\ yosysJsonObject[2].ports # <<>>
    /\ diagram[1].type = yosysJsonObject[3].name

RECURSIVE ConcatFrom(_, _)
ConcatFrom(parts, k) == IF k > Len(parts) THEN <<>> ELSE parts[k] \o ConcatFrom(parts, k + 1)

RECURSIVE SumWidths(_, _)
SumWidths(ports, k) == IF k > Len(ports) THEN 0 ELSE Len(ports[k].bits) + SumWidths(ports, k + 1)

\* C20: after resolution every entry D -> [p_0 .. p_(n-1)] of joinInfo has
\* parts that are contiguous parts of D and that concatenated are D; the
\* widths of the inputs of every join node add up to the width of its 'out'.
C20_JoinPartsTileSink ==
    /\ pc = "synth" =>
          \A k \in DOMAIN joinInfo :
              /\ \A i \in DOMAIN joinInfo[k].vals : search(joinInfo[k].key, joinInfo[k].vals[i])
              /\ ConcatFrom(joinInfo[k].vals, 1) = joinInfo[k].key
    /\ pc = "stitch" =>
          \A n \in DOMAIN currentModule.nodes :
              LET node == currentModule.nodes[n]
                  ins == SelectSeq(node.ports, LAMBDA p : p.direction = "INPUT")
                  outs == SelectSeq(node.ports, LAMBDA p : p.direction = "OUTPUT")
              IN node.type = "join" => SumWidths(ins, 1) = SumWidths(outs, 1)

\* ------------------------------------ createSplitJoin, one step at a time
\* exec = [frames, src, split, join]: the calls of createSplitJoin that are
\* running, innermost last, and the containers all of them share by
\* reference.  A frame is [toSolve, dst, tasks, current]: the parameter
\* toSolve, the sink pool of this call, the stack of tasks, and the task the
\* loop popped last.

\* the width of the bus whose slices the pools of a call on its own hold
ResolveWidth == 3

ResolveBus == [i \in 1..ResolveWidth |-> i + 1]

ResolveSlices == {SubSeq(ResolveBus, i, j) : i \in 1..ResolveWidth, j \in 1..ResolveWidth} \ {<<>>}

\* the call createSplitJoin(srcPorts, destPorts, toSolve, 0, toSolve.length(), ...)
Frame(toSolve, dst) ==
    [toSolve |-> toSolve, dst |-> dst,
     tasks |-> <<Task(0, Len(toSolve), mid(toSolve, 0, Len(toSolve)))>>,
     current |-> Task(0, Len(toSolve), mid(toSolve, 0, Len(toSolve)))]

InitResolve ==
    \E src \in ListsUpTo(ResolveSlices, 2), toSolve \in ResolveSlices,
       others \in ListsUpTo(ResolveSlices, 1), own \in BOOLEAN :
        /\ ParserIdle
        /\ input = [src |-> src, dst |-> (IF own THEN <<toSolve>> ELSE <<>>) \o others, toSolve |-> toSolve]
        /\ output = <<>>
        /\ exec = [frames |-> <<Frame(toSolve, input.dst)>>, src |-> src, split |-> <<>>, join |-> <<>>]

Top == exec.frames[Len(exec.frames)]

\* the head of the loop (parser.cpp 485-492): the task popped, and the
\* frame without it and without the first toSolve in its sink pool
Popped ==
    LET destIdx == indexOf(Top.dst, Top.toSolve)
    IN [Top EXCEPT !.current = Top.tasks[Len(Top.tasks)],
                   !.tasks = SubSeq(@, 1, Len(@) - 1),
                   !.dst = IF destIdx # 0 THEN removeAt(@, destIdx) ELSE @]

\* which branch of the loop body the popped task takes
Branch ==
    LET current == Popped.current
    IN IF current.startIdx >= Len(Top.toSolve) \/ current.endIdx - current.startIdx < 1 THEN "skip"
       ELSE IF contains(exec.src, current.querryBits) THEN "exact"
       ELSE IF indexOfContains(exec.src, current.querryBits) # 0 THEN "part"
       ELSE IF indexOfContains(Popped.dst, current.querryBits) # 0 THEN "nested"
       ELSE "shrink"

Looping(branch) == exec.frames # <<>> /\ Top.tasks # <<>> /\ Branch = branch

\* exec with its innermost frame replaced
WithTop(frame) == [exec EXCEPT !.frames[Len(exec.frames)] = frame]

\* joinInfo after 'if(querryBits != toSolve) addToMap(joinInfo, toSolve, querryBits)'
JoinAdded ==
    IF Popped.current.querryBits # Top.toSolve
    THEN addToMap(exec.join, Top.toSolve, Popped.current.querryBits)
    ELSE exec.join

\* parser.cpp 494-497
SkipTask ==
    /\ Looping("skip")
    /\ exec' = WithTop(Popped)
    /\ UNCHANGED <<parser, input, output>>

\* parser.cpp 501-509
MatchSource ==
    /\ Looping("exact")
    /\ exec' = [WithTop([Popped EXCEPT !.tasks = Append(@, remainderTask(Top.toSolve, Popped.current))])
                   EXCEPT !.join = JoinAdded]
    /\ UNCHANGED <<parser, input, output>>

\* parser.cpp 511-524
MatchPartOfSource ==
    /\ Looping("part")
    /\ exec' = [WithTop([Popped EXCEPT !.tasks = Append(@, remainderTask(Top.toSolve, Popped.current))])
                   EXCEPT !.join = JoinAdded,
                          !.split = addToMap(@, exec.src[indexOfContains(exec.src, Popped.current.querryBits)],
                                             Popped.current.querryBits),
                          !.src = Append(@, Popped.current.querryBits)]
    /\ UNCHANGED <<parser, input, output>>

\* parser.cpp 526-534: the nested call begins, with an empty sink pool
NestQuery ==
    /\ Looping("nested")
    /\ exec' = [WithTop(Popped) EXCEPT !.join = JoinAdded,
                                      !.frames = Append(@, Frame(Popped.current.querryBits, <<>>))]
    /\ UNCHANGED <<parser, input, output>>

\* parser.cpp 544
ShrinkQuery ==
    /\ Looping("shrink")
    /\ exec' = WithTop([Popped EXCEPT !.tasks = Append(@, shrinkTask(Top.toSolve, Popped.current))])
    /\ UNCHANGED <<parser, input, output>>

\* parser.cpp 535-542: the nested call has returned
ReturnNested ==
    /\ Len(exec.frames) >= 2 /\ Top.tasks = <<>>
    /\ LET outer == exec.frames[Len(exec.frames) - 1]
           querryBits == Top.toSolve
       IN exec' = [exec EXCEPT
                      !.src = Append(@, querryBits),
                      !.frames = Append(SubSeq(@, 1, Len(@) - 2),
                                        [outer EXCEPT !.tasks =
                                            IF search(outer.toSolve, querryBits)
                                            THEN Append(@, remainderTask(outer.toSolve, outer.current))
                                            ELSE @])]
    /\ UNCHANGED <<parser, input, output>>

\* the outermost call returns: the four containers as it leaves them
ReturnResult ==
    /\ Len(exec.frames) = 1 /\ Top.tasks = <<>>
    /\ output' = <<[src |-> exec.src, dst |-> Top.dst, split |-> exec.split, join |-> exec.join]>>
    /\ exec' = [exec EXCEPT !.frames = <<>>]
    /\ UNCHANGED <<parser, input>>

NextResolve ==
    \/ SkipTask
    \/ MatchSource
    \/ MatchPartOfSource
    \/ NestQuery
    \/ ShrinkQuery
    \/ ReturnNested
    \/ ReturnResult

\* a running loop goes on: nothing but the loop itself can stop it
SpecResolve == InitResolve /\ [][NextResolve]_vars /\ WF_vars(NextResolve)

\* the steps lead to what createSplitJoin returns when computed at once
StepsAgreeWithCreateSplitJoin ==
    output # <<>> =>
        output[1] = createSplitJoin([src |-> input.src, dst |-> input.dst, split |-> <<>>, join |-> <<>>],
                                    input.toSolve, 0, Len(input.toSolve))

\* C21: a call of createSplitJoin returns after finitely many steps.  The
\* stack never holds more than one task; a step of the loop that pushes a
\* task either lets it start behind the segment just matched or gives it
\* the query without its last bit; the nested call has an empty sink pool,
\* and there is never a call nested in a nested call.
C21_ResolutionTerminates ==
    /\ <>(output # <<>>)
    /\ [](/\ Len(exec.frames) <= 2
          /\ \A f \in DOMAIN exec.frames : Len(exec.frames[f].tasks) <= 1
          /\ Len(exec.frames) = 2 => exec.frames[2].dst = <<>>)
    /\ [][exec.frames # <<>> /\ Top.tasks # <<>> /\ Len(exec'.frames) = Len(exec.frames) =>
            LET old == Top.tasks[1]
                new == exec'.frames[Len(exec'.frames)].tasks
            IN \/ new = <<>>
               \/ new[1].startIdx = old.endIdx /\ old.endIdx > old.startIdx
               \/ /\ new[1].startIdx = old.startIdx
                  /\ Len(new[1].querryBits) = Len(old.querryBits) - 1
                  /\ new[1].endIdx = old.endIdx - 1]_vars

\* C21 witness: a nested call has emptied its stack after it shortened its
\* query, and is about to return into the call that made it
C21_Witness ==
    /\ Len(exec.frames) = 2
    /\ Top.tasks = <<>>
    /\ Len(Top.current.querryBits) < Len(Top.toSolve)

\* the places <<entry, position>> of the sequences listed in a split/join map
MapPlaces(map) ==
    {pl \in {<<k, i>> : k \in DOMAIN map, i \in 1..(MaxBits + BusWidth + 4)} : pl[2] \in DOMAIN map[pl[1]].vals}

\* C22: after resolution every sequence listed in splitInfo under the key S
\* is not empty, is a contiguous part of S and is not S; S is in the source
\* pool; no sequence is listed twice, under one key or under two; so no two
\* outputs of split nodes carry the same bits.
C22_SplitPartsStrictAndUnique ==
    /\ pc = "synth" =>
          /\ \A pl \in MapPlaces(splitInfo) :
                LET S == splitInfo[pl[1]].key
                    Q == splitInfo[pl[1]].vals[pl[2]]
                IN /\ Q # <<>> /\ Q # S /\ search(S, Q)
                   /\ contains(resolve(currentModule).src, S)
                   /\ \A other \in MapPlaces(splitInfo) :
                         other # pl => splitInfo[other[1]].vals[other[2]] # Q
          /\ \A k \in DOMAIN splitInfo : splitInfo[k].vals # <<>>
    /\ pc = "stitch" =>
          \A r1, r2 \in Range(NodeRefs(currentModule)) :
              (/\ r1 # r2
               /\ currentModule.nodes[r1[1]].type = "split" /\ currentModule.nodes[r2[1]].type = "split"
               /\ PortAt(currentModule, r1).direction = "OUTPUT"
               /\ PortAt(currentModule, r2).direction = "OUTPUT")
              => PortAt(currentModule, r1).bits # PortAt(currentModule, r2).bits

\* C22 witness: after resolution splitInfo lists a part of a source that
\* two sinks ask for
C22_Witness ==
    /\ pc = "synth"
    /\ \E i, j \in DOMAIN collectDestPorts(currentModule) :
          /\ i # j /\ collectDestPorts(currentModule)[i] = collectDestPorts(currentModule)[j]
          /\ \E pl \in MapPlaces(splitInfo) :
                splitInfo[pl[1]].vals[pl[2]] = collectDestPorts(currentModule)[i]

\* the module parse produces for one module of the JSON when a parser of
\* its own, with an empty translation table, works on it
parsedAlone(jm) ==
    LET r == replaceConstBits(readModule(jm).m, <<>>)
        i == resolve(r.m)
        n == createSplitNodes(createJoinNodes(r.m, i.join, 1), i.split, 1)
    IN removeUnconnectedPaths(createSignalConnections(n, r.map))

\* C23: the module added to the diagram for a module of the JSON is the one
\* a parser of its own would produce for it, whatever modules the parser
\* has worked on before.
C23_NoCrossModuleState ==
    \A k \in DOMAIN diagram : \A j \in DOMAIN yosysJsonObject :
        yosysJsonObject[j].name = diagram[k].type => diagram[k] = parsedAlone(yosysJsonObject[j])


\* the maximal runs of "0"/"1" bits of a bit list, as 1-based ranges
maxConstRuns(bits) ==
    {r \in (DOMAIN bits) \X (DOMAIN bits) :
        /\ r[1] <= r[2]
        /\ \A i \in r[1]..r[2] : IsConstBit(bits[i])
        /\ r[1] = 1 \/ ~IsConstBit(bits[r[1] - 1])
        /\ r[2] = Len(bits) \/ ~IsConstBit(bits[r[2] + 1])}

\* the port p was made by replaceConstBits for run r of the port at ref
madeForRun(before, after, p, ref, r) ==
    /\ p.direction = "CONST"
    /\ p.parentNode = ""
    /\ p.name = PortAt(before, ref).name \o "_const"
    /\ Len(p.bits) = r[2] - r[1] + 1
    /\ p.bits = SubSeq(PortAt(after, ref).bits, r[1], r[2])

\* what replaceConstBits made of the module before
materialized(before, after) ==
    LET hosts == Range(constHosts(before))
        new   == (Len(before.ports) + 1)..Len(after.ports)
    IN /\ Len(after.ports) >= Len(before.ports)
       /\ Len(after.nodes) = Len(before.nodes)
       /\ \A n \in DOMAIN before.nodes : Len(after.nodes[n].ports) = Len(before.nodes[n].ports)
       /\ \A ref \in hosts : \A r \in maxConstRuns(PortAt(before, ref).bits) :
              Cardinality({k \in new : madeForRun(before, after, after.ports[k], ref, r)}) = 1
       /\ \A k \in new : \E ref \in hosts : \E r \in maxConstRuns(PortAt(before, ref).bits) :
              madeForRun(before, after, after.ports[k], ref, r)
       /\ \A ref \in Range(AllRefs(before)) : \A i \in DOMAIN PortAt(before, ref).bits :
              \/ ref \in hosts /\ IsConstBit(PortAt(before, ref).bits[i])
              \/ PortAt(after, ref).bits[i] = PortAt(before, ref).bits[i]

\* C24: replaceConstBits runs before the resolver and makes, for every port
\* it works on, one CONST port per maximal run of constant bits and no
\* other port: the port is named '<host>_const', has no parent node, is
\* appended to the ports of the module also for a host owned by a node, is
\* as wide as the run, and its bits are the ones now found in the host at
\* the place of the run.
C24_OneConstPortPerRun ==
    [][pc = "replace" => /\ pc' = "resolve"
                         /\ currentModule.paths = <<>>
                         /\ \A n \in DOMAIN currentModule.nodes :
                                currentModule.nodes[n].type \notin {"split", "join"}
                         /\ materialized(currentModule, currentModule')]_vars

\* a module after replaceConstBits with a host owned by a node and a host
\* with two runs of constant bits
C24_Witness ==
    /\ pc = "resolve"
    /\ \E k \in DOMAIN currentModule.ports :
           /\ currentModule.ports[k].direction = "CONST"
           /\ \E ref \in Range(NodeRefs(currentModule)) :
                  /\ PortAt(currentModule, ref).name \o "_const" = currentModule.ports[k].name
                  /\ search(PortAt(currentModule, ref).bits, currentModule.ports[k].bits)
    /\ \E k, l \in DOMAIN currentModule.ports :
           /\ k # l
           /\ currentModule.ports[k].direction = "CONST"
           /\ currentModule.ports[l].direction = "CONST"
           /\ currentModule.ports[k].name = currentModule.ports[l].name


\* the maps of connectDiagramConnections after the first k rounds of its
\* loop over destPorts (parser.cpp 191-204)
resolvedUpTo(m, k) ==
    resolveFrom([src |-> collectSrcPorts(m), dst |-> collectDestPorts(m), split |-> <<>>, join |-> <<>>],
                SubSeq(collectDestPorts(m), 1, k), 1)

\* the round of that loop in which the map first held the key, and the
\* round in which the list of the key first held the part
keyRecorded(m, kind, key) ==
    CHOOSE k \in 0..Len(collectDestPorts(m)) :
        /\ mapFind(resolvedUpTo(m, k)[kind], key) # 0
        /\ \A l \in 0..(k - 1) : mapFind(resolvedUpTo(m, l)[kind], key) = 0

hasPart(map, key, part) ==
    mapFind(map, key) # 0 /\ contains(map[mapFind(map, key)].vals, part)

partRecorded(m, kind, key, part) ==
    CHOOSE k \in 0..Len(collectDestPorts(m)) :
        /\ hasPart(resolvedUpTo(m, k)[kind], key, part)
        /\ \A l \in 0..(k - 1) : ~hasPart(resolvedUpTo(m, l)[kind], key, part)

\* the nodes createSplitNodes or createJoinNodes added are numbered from 0
\* in their order, and the numbered ports of each follow the rounds in
\* which their bits were recorded
numberedInOrder(before, after, type) ==
    LET made == NodesOfType(after, type)
        keyOf(n) == IF type = "split" THEN n.ports[1].bits ELSE n.ports[Len(n.ports)].bits
        parts(n) == IF type = "split" THEN SubSeq(n.ports, 2, Len(n.ports))
                    ELSE SubSeq(n.ports, 1, Len(n.ports) - 1)
    IN /\ \A i \in DOMAIN made : made[i].name = type \o ToString(i - 1)
       /\ \A i \in DOMAIN made : \A a, b \in DOMAIN parts(made[i]) :
              partRecorded(before, type, keyOf(made[i]), parts(made[i])[a].bits)
                  < partRecorded(before, type, keyOf(made[i]), parts(made[i])[b].bits) => a < b

\* the nodes of a type follow the rounds in which their keys were recorded
inRecordedOrder(before, after, type) ==
    LET made == NodesOfType(after, type)
        keyOf(n) == IF type = "split" THEN n.ports[1].bits ELSE n.ports[Len(n.ports)].bits
    IN \A i, j \in DOMAIN made :
           keyRecorded(before, type, keyOf(made[i])) < keyRecorded(before, type, keyOf(made[j])) => i < j

\* the nodes of a type follow the order of their keys
inKeyOrder(after, type) ==
    LET made == NodesOfType(after, type)
        keyOf(n) == IF type = "split" THEN n.ports[1].bits ELSE n.ports[Len(n.ports)].bits
    IN \A i, j \in DOMAIN made : i < j => ListLess(keyOf(made[i]), keyOf(made[j]))

\* C25 as stated: the split and the join nodes are numbered in the order in
\* which the resolver first recorded their keys, and the numbered ports of
\* each node follow the order in which its parts were recorded.
C25_NodesInInsertionOrder ==
    [][pc = "synth" =>
          /\ numberedInOrder(currentModule, currentModule', "split")
          /\ numberedInOrder(currentModule, currentModule', "join")
          /\ inRecordedOrder(currentModule, currentModule', "split")
          /\ inRecordedOrder(currentModule, currentModule', "join")]_vars

\* C25: the split and the join nodes are numbered from 0 in the order of
\* their keys, the order in which std::map lists QStringList keys, and the
\* numbered ports of each node follow the order in which its parts were
\* recorded.
C25_NodesInKeyOrder ==
    [][pc = "synth" =>
          /\ numberedInOrder(currentModule, currentModule', "split")
          /\ numberedInOrder(currentModule, currentModule', "join")
          /\ inKeyOrder(currentModule', "split")
          /\ inKeyOrder(currentModule', "join")]_vars

\* two join nodes whose keys were recorded in the other order than the one
\* of their numbers, and a node with two numbered ports
C25_Witness ==
    /\ pc = "stitch"
    /\ Len(NodesOfType(currentModule, "join")) + Len(NodesOfType(currentModule, "split")) >= 2
    /\ Len(joinInfo) = 2
    /\ Len(collectDestPorts(currentModule)) >= 2
    /\ joinInfo[1].key # collectDestPorts(currentModule)[1]
    /\ Len(joinInfo[1].vals) = 2


\* C26: after createSignalConnections every INPUT port of a split or join
\* node has the bits of some driver port (boundary INPUT or CONST, node
\* OUTPUT) and is attached to a Path.
C26_SynthesizedInputsDriven ==
    pc = "prune" =>
        \A ref \in Range(NodeRefs(currentModule)) :
            (/\ currentModule.nodes[ref[1]].type \in {"split", "join"}
             /\ PortAt(currentModule, ref).direction = "INPUT")
            => /\ \E d \in Range(stitchSrcPorts(currentModule)) :
                      PortAt(currentModule, d).bits = PortAt(currentModule, ref).bits
               /\ PortAt(currentModule, ref).path # 0


\* C27: in every module of the diagram a port whose path is set refers to
\* a Path of the path list of the module, so a port without an "x" bit has
\* a connection only if a Path of the list is attached to it.
C27_PortPathsSurvive ==
    \A k \in DOMAIN diagram : \A ref \in Range(AllRefs(diagram[k])) :
        LET port == PortAt(diagram[k], ref)
            kept == \E i \in DOMAIN diagram[k].paths : diagram[k].paths[i].id = port.path
        IN /\ port.path # 0 => kept
           /\ PortHasConnection(port) => kept \/ hasNoConnectBits(port.bits)


\* the loop of the outermost call is about to find that its query of one
\* bit matches no source, is part of no source and of no pooled sink
UnmatchedBit ==
    /\ Len(exec.frames) = 1
    /\ Looping("shrink")
    /\ Len(Popped.current.querryBits) = 1

\* the stack of the outermost call holds the empty query left of a bit
\* that matched nothing; bits of toSolve follow it
GivenUp ==
    /\ Len(exec.frames) = 1
    /\ Top.tasks # <<>>
    /\ Top.tasks[1].querryBits = <<>>
    /\ Top.tasks[1].startIdx < Len(Top.toSolve)

\* C28: when the query of one bit at index s of the sink matches no source,
\* is part of no source and of no pooled sink, the loop pushes the empty
\* query at s, drops it in its next round and returns with an empty stack;
\* from the unmatched bit on splitInfo and joinInfo are not written, so they
\* get no entry for the bits from s on, whatever the sources offer.
C28_StopsAtFirstUnmatchedBit ==
    /\ [][UnmatchedBit =>
             /\ exec'.split = exec.split /\ exec'.join = exec.join /\ exec'.src = exec.src
             /\ exec'.frames[1].tasks =
                    <<Task(Popped.current.startIdx, Popped.current.startIdx, <<>>)>>]_vars
    /\ [][GivenUp =>
             /\ exec'.split = exec.split /\ exec'.join = exec.join /\ exec'.src = exec.src
             /\ Len(exec'.frames) = 1 /\ exec'.frames[1].tasks = <<>>]_vars
    /\ [][Len(exec.frames) = 1 /\ Top.tasks = <<>> /\ Top.current.querryBits = <<>>
          /\ Top.current.startIdx < Len(Top.toSolve) =>
             /\ output' = <<[src |-> exec.src, dst |-> Top.dst, split |-> exec.split, join |-> exec.join]>>
             /\ exec'.frames = <<>>]_vars
    /\ [](output # <<>> => ~ENABLED NextResolve)

\* the call has given up at a bit of the sink though a source has the bits
\* that follow it
C28_Witness ==
    /\ GivenUp
    /\ Top.tasks[1].startIdx + 1 < Len(Top.toSolve)
    /\ contains(exec.src, mid(Top.toSolve, Top.tasks[1].startIdx + 1, Len(Top.toSolve)))


\* C29: parse never fails with 'Module has no components': a module that
\* passes the test of hasModuleInvalidPaths has at least one Path, so
\* isEmpty is false for it when parse asks.
C29_NoComponentsUnreachable ==
    /\ error # "Module has no components"
    /\ pc = "validate" /\ ~hasModuleInvalidPaths(currentModule) =>
           Len(currentModule.paths) >= 1 /\ ~isEmpty(currentModule)

\* parse has passed the test of hasModuleInvalidPaths and isEmpty and has
\* added the module
C29_Witness ==
    /\ pc \in {"module", "done"}
    /\ diagram # <<>>
    /\ diagram[Len(diagram)] = currentModule
    /\ ~hasModuleInvalidPaths(currentModule)


\* the first port of the source pool of createSignalConnections with these bits
firstDriver(m, bits) ==
    LET pool == stitchSrcPorts(m)
    IN pool[CHOOSE k \in DOMAIN pool :
                /\ PortAt(m, pool[k]).bits = bits
                /\ \A l \in 1..(k - 1) : PortAt(m, pool[l]).bits # bits]

\* C30: in every module of the diagram no two Paths without an "x" bit have
\* the same bits; such a Path is the one of the first driver port with its
\* bits in the order of the source pool, every consumer port with these
\* bits is attached to it, and the Paths of the other drivers with these
\* bits are gone from the path list.
C30_OnePathPerBits ==
    \A k \in DOMAIN diagram :
        LET m == diagram[k]
        IN /\ \A i, j \in DOMAIN m.paths :
                  i # j /\ ~hasNoConnectBits(m.paths[i].bits) => m.paths[i].bits # m.paths[j].bits
           /\ \A i \in DOMAIN m.paths :
                  ~hasNoConnectBits(m.paths[i].bits) =>
                      /\ m.paths[i].sigSource = firstDriver(m, m.paths[i].bits)
                      /\ \A d \in Range(stitchDestPorts(m)) :
                             PortAt(m, d).bits = m.paths[i].bits =>
                                 /\ PortAt(m, d).path = m.paths[i].id
                                 /\ contains(m.paths[i].sigDestinations, d)
                      /\ \A s \in Range(stitchSrcPorts(m)) :
                             (PortAt(m, s).bits = m.paths[i].bits /\ s # m.paths[i].sigSource) =>
                                 \A j \in DOMAIN m.paths : m.paths[j].id # PortAt(m, s).path

\* a module of the diagram with two driver ports of the same bits and a
\* consumer of these bits
C30_Witness ==
    \E k \in DOMAIN diagram :
        \E s, t \in Range(stitchSrcPorts(diagram[k])) : \E d \in Range(stitchDestPorts(diagram[k])) :
            /\ s # t
            /\ PortAt(diagram[k], s).bits = PortAt(diagram[k], t).bits
            /\ PortAt(diagram[k], d).bits = PortAt(diagram[k], s).bits
            /\ ~hasNoConnectBits(PortAt(diagram[k], s).bits)

====
